--------------------------- MODULE SessionProofs ---------------------------
(***************************************************************************)
(* What Session promises for every pool, every number of connections and   *)
(* every channel capacity.                                                 *)
(***************************************************************************)
EXTENDS Session, SequenceTheorems, TLAPS

MP == INSTANCE MinerProofs WITH
        BadWork <- {w \in Work : w.job \in BadJobs},
        MaxCommands <- 0

(* What Miner asks of its constants holds of the miner Session builds. *)
LEMMA MinerConstants ==
    /\ Threads # {}
    /\ {w \in Work : w.job \in BadJobs} \subseteq Work
    /\ JobCap \in Nat \ {0}
    /\ ResultCap \in Nat \ {0}
    /\ 0 \in Nat
BY SessionAssumption

(* Where the manager is says something about the rest of its state. *)
PhaseInv ==
    /\ mgr = "connecting" => sid < MaxSessions
    /\ mgr \in {"handshake", "session"} => sid \in Sessions
    /\ mgr = "handshake" => /\ request_id = 1
                            /\ authorized = None
                            /\ state.current_job = None
    /\ mgr = "session" => request_id >= 3
    /\ mgr \notin {"session", "ending", "cleanup"} => outbox = <<>>

-----------------------------------------------------------------------------
LEMMA NothingRead == <<>> \in Seq(Line)
OBVIOUS

LEMMA StopType == <<M!Stop>> \in Seq(M!Command) /\ <<>> \in Seq(M!Command)
<1>1. M!Stop \in M!Command
  BY DEF M!Command
<1> QED BY <1>1

LEMMA JobCommandsType ==
    ASSUME sid \in Sessions, NEW j \in Jobs, NEW c \in BOOLEAN,
           NEW d \in Difficulties \cup {One}
    PROVE  JobCommands(j, c, d) \in Seq(M!Command)
<1> DEFINE nj == M!NewJob([job |-> j, en1 |-> sid, difficulty |-> d])
<1>2. nj \in M!Command
  BY DEF M!Command, Work
<1> HIDE DEF nj
<1>3. <<nj>> \in Seq(M!Command)
  BY <1>2
<1>4. JobCommands(j, c, d) = (IF c THEN <<M!Stop>> ELSE <<>>) \o <<nj>>
  BY DEF JobCommands, nj
<1> QED BY <1>3, <1>4, StopType

(* Every step of the composition is a step of the miner under some manager.*)
LEMMA DrivesMiner == TypeOK /\ [Next]_vars => [M!OpenNext]_miner_vars
<1> SUFFICES ASSUME TypeOK, [Next]_vars PROVE [M!OpenNext]_miner_vars
  OBVIOUS
<1>1. CASE Pool \/ request_shutdown \/ connect \/ Handshake
  BY <1>1 DEF Pool, pool_sends, pool_closes, request_shutdown, connect, Handshake,
              connected, connect_fails, handshake_stores, subscribed, handshake_fails,
              NoOtherEffect
<1>2. CASE Loop
  BY <1>2 DEF Loop, handle_notify, handle_set_difficulty, handle_response,
              handle_ignored, handle_nonce_dropped, handle_nonce_found,
              handle_nonce_found_fails, NoOtherEffect, M!OpenNext, M!Manager
<1>3. CASE session_interrupted \/ connection_lost \/ shutdown_observed
  BY <1>3 DEF session_interrupted, connection_lost, shutdown_observed, EndSession
<1>4. CASE send_next
  <2>1. Head(outbox) \in M!Command
    BY <1>4 DEF send_next, TypeOK, ManagerTypeOK
  <2> QED BY <1>4, <2>1 DEF send_next, M!OpenNext, M!Manager
<1>5. CASE Ending
  BY <1>5 DEF Ending, session_over, leave_loop, cleanup, finish, M!OpenNext, M!Manager
<1>6. CASE MinerStep
  BY <1>6 DEF MinerStep, M!OpenNext
<1>7. CASE Terminated \/ UNCHANGED vars
  BY <1>7 DEF Terminated, vars
<1> QED BY <1>1, <1>2, <1>3, <1>4, <1>5, <1>6, <1>7 DEF Next

(* MP names the definitions M names. *)
LEMMA SameMiner ==
    /\ MP!TypeOK <=> M!TypeOK
    /\ MP!OpenNext <=> M!OpenNext
    /\ MP!Init <=> M!Init
    /\ MP!vars = miner_vars
<1>1. MP!Command = M!Command /\ MP!Task = M!Task
  BY DEF MP!Command, MP!Stop, MP!NewJob, MP!Task, M!Command, M!Stop, M!NewJob, M!Task
<1>2. MP!TypeOK <=> M!TypeOK
  BY <1>1, Zenon DEF MP!TypeOK, M!TypeOK
<1>3. MP!Init <=> M!Init
  BY Zenon DEF MP!Init, M!Init, MP!Stop, M!Stop
<1>4. MP!Worker <=> M!Worker
  BY Zenon DEF MP!Worker, MP!worker_new_job, MP!worker_stop, MP!worker_exit, MP!NextEpoch,
         MP!Spawned, MP!Stop, M!Worker, M!worker_new_job, M!worker_stop,
         M!worker_exit, M!NextEpoch, M!Spawned, M!Stop
<1>5. MP!Mining <=> M!Mining
  BY Zenon DEF MP!Mining, MP!task_find, MP!task_send, MP!task_stop, MP!EpochLoads,
         MP!Replace, M!Mining, M!task_find, M!task_send, M!task_stop, M!EpochLoads,
         M!Replace
<1>6. MP!Manager <=> M!Manager
  BY <1>1, Zenon DEF MP!Manager, MP!send_command, MP!recv_result, MP!drop_job_tx,
              MP!drop_channels, M!Manager, M!send_command, M!recv_result,
              M!drop_job_tx, M!drop_channels
<1> QED BY <1>2, <1>3, <1>4, <1>5, <1>6 DEF MP!OpenNext, M!OpenNext, MP!vars, miner_vars

(* The miner's types are kept by MinerProofs. *)
LEMMA MinerTypeStep == TypeOK /\ [Next]_vars => M!TypeOK'
<1>1. MP!TypeOK /\ [MP!OpenNext]_(MP!vars) => MP!TypeOK'
  BY MinerConstants, MP!TypeStep DEF MP!MinerAssumption
<1>2. MP!TypeOK' <=> M!TypeOK'
  BY SameMiner, PTL
<1> QED BY <1>1, <1>2, SameMiner, DrivesMiner DEF TypeOK, MP!vars, miner_vars

-----------------------------------------------------------------------------
(* A line of the inbox, once read, is a line of one of the kinds.          *)
LEMMA HeadLine ==
    ASSUME ManagerTypeOK, inbox # <<>>
    PROVE  /\ Head(inbox) \in Line
           /\ Tail(inbox) \in Seq(Line)
           /\ Head(inbox).kind = "notify" => /\ Head(inbox).job_id \in Jobs
                                             /\ Head(inbox).clean_jobs \in BOOLEAN
           /\ Head(inbox).kind = "set_difficulty" => Head(inbox).difficulty \in Difficulties
           /\ Head(inbox).kind = "response" => Head(inbox) \in Replies
<1>1. Head(inbox) \in Line /\ Tail(inbox) \in Seq(Line)
  BY DEF ManagerTypeOK
<1>2. \A l \in Replies : l.kind = "response"
  BY SessionAssumption
<1> QED BY <1>1, <1>2 DEF Line, SetDifficulty, Notify, Ignored

(* The fresh state is a state of a connection at any request id. *)
LEMMA FreshType == fresh_state \in ManagerState /\ (fresh_state \in ManagerState)'
BY DEF fresh_state, DefaultState, ManagerState

(* The environment and the attempts to connect. *)
LEMMA ConnectTypeStep ==
    ASSUME ManagerTypeOK, PhaseInv,
           Pool \/ request_shutdown \/ connect \/ connected \/ connect_fails
             \/ handshake_fails
    PROVE  ManagerTypeOK' /\ PhaseInv'
<1> USE DEF ManagerTypeOK
<1>1. CASE pool_sends
  <2>1. PICK l \in Line : inbox' = Append(inbox, l)
    BY <1>1 DEF pool_sends, Sendable
  <2>2. inbox' \in Seq(Line)
    BY <2>1
  <2> QED BY <1>1, <2>2 DEF pool_sends, PhaseInv, counters, ManagerState
<1>2. CASE pool_closes \/ request_shutdown
  BY <1>2 DEF pool_closes, request_shutdown, counters, conn, PhaseInv, ManagerState
<1>3. CASE connect
  BY <1>3, SessionAssumption DEF connect, counters, conn, PhaseInv, ManagerState
<1>4. CASE connected
  <2>1. sid' \in Sessions
    BY <1>4, SessionAssumption DEF connected, PhaseInv, Sessions
  <2> QED BY <1>4, <2>1, FreshType, SessionAssumption
          DEF connected, counters, PhaseInv, Sessions, fresh_state, DefaultState
<1>5. CASE connect_fails \/ handshake_fails
  <2>1. outbox' \in Seq(M!Command)
    BY <1>5, StopType DEF connect_fails, handshake_fails, GiveUpAttempt
  <2>2. inbox' \in Seq(Line)
    <3>1. inbox' = inbox \/ inbox' = <<>>
      BY <1>5 DEF connect_fails, handshake_fails, Disconnect, conn
    <3> QED BY <3>1, NothingRead
  <2>3. state' \in ManagerState'
    BY <1>5, FreshType DEF connect_fails, handshake_fails, GiveUpAttempt
  <2>4. pending_job' = None /\ mgr' \in {"top", "cleanup"} /\ (mgr' = "top" => outbox' = <<>>)
    BY <1>5 DEF connect_fails, handshake_fails, GiveUpAttempt
  <2>5. /\ UNCHANGED <<sid, request_id, authorized, counters, lines, shutdown>>
        /\ conn_open' \in BOOLEAN
    BY <1>5 DEF connect_fails, handshake_fails, Disconnect, conn
  <2>6. ManagerTypeOK'
    BY <2>1, <2>2, <2>3, <2>4, <2>5 DEF counters
  <2> QED BY <2>4, <2>6 DEF PhaseInv
<1> QED BY <1>1, <1>2, <1>3, <1>4, <1>5 DEF Pool

(* The handshake's lines. *)
LEMMA HandshakeTypeStep ==
    ASSUME ManagerTypeOK, PhaseInv, handshake_stores \/ subscribed
    PROVE  ManagerTypeOK' /\ PhaseInv'
<1> USE DEF ManagerTypeOK
<1>1. inbox # <<>> /\ mgr = "handshake"
  BY DEF handshake_stores, subscribed
<1>2. inbox' \in Seq(Line)
  BY <1>1, HeadLine DEF handshake_stores, subscribed, NoOtherEffect
<1>3. UNCHANGED <<sid, shutdown, accepted, rejected, shares, conn_open, lines>>
  BY DEF handshake_stores, subscribed, NoOtherEffect, counters
<1>4. sid \in Sessions /\ request_id = 1
  BY <1>1 DEF PhaseInv
<1>5. CASE handshake_stores
  <2>1. UNCHANGED <<mgr, request_id, outbox, authorized>>
    BY <1>5 DEF handshake_stores
  <2>2. pending_job' \in [job_id : Jobs, clean_jobs : BOOLEAN] \cup {None}
    BY <1>1, <1>5, HeadLine DEF handshake_stores
  <2>3. state' \in ManagerState' /\ state'.current_job = state.current_job
    BY <1>1, <1>5, <2>1, HeadLine DEF handshake_stores, ManagerState
  <2>4. ManagerTypeOK'
    BY <1>2, <1>3, <2>1, <2>2, <2>3
  <2> QED BY <1>3, <2>1, <2>3, <2>4 DEF PhaseInv
<1>6. CASE subscribed
  <2>0. state.pending_submit_ids = {}
    BY <1>4 DEF ManagerState
  <2>1. mgr' = "session" /\ request_id' = 3 /\ pending_job' = None /\ UNCHANGED authorized
    BY <1>6 DEF subscribed
  <2>2. state' \in ManagerState' /\ outbox' \in Seq(M!Command)
    <3>1. CASE pending_job = None
      BY <1>4, <1>6, <2>0, <2>1, <3>1 DEF subscribed, ManagerState
    <3>2. CASE pending_job # None
      <4>1. pending_job.job_id \in Jobs /\ pending_job.clean_jobs \in BOOLEAN
        BY <3>2
      <4>2. state' \in ManagerState'
        BY <1>4, <1>6, <2>0, <2>1, <3>2, <4>1 DEF subscribed, ManagerState
      <4>3. state.difficulty \in Difficulties \cup {One}
        BY DEF ManagerState
      <4> QED BY <1>4, <1>6, <3>2, <4>1, <4>2, <4>3, JobCommandsType DEF subscribed
    <3> QED BY <3>1, <3>2
  <2>3. ManagerTypeOK'
    BY <1>2, <1>3, <2>1, <2>2
  <2> QED BY <1>3, <1>4, <2>1, <2>3 DEF PhaseInv
<1> QED BY <1>5, <1>6

(* The handlers of the session loop. *)
LEMMA LoopTypeStep ==
    ASSUME TypeOK, PhaseInv, Loop
    PROVE  ManagerTypeOK' /\ PhaseInv'
<1> USE DEF ManagerTypeOK
<1>0. ManagerTypeOK
  BY DEF TypeOK
<1>1. mgr = "session" /\ sid \in Sessions /\ request_id >= 3 /\ outbox = <<>>
  BY DEF Loop, handle_notify, handle_set_difficulty, handle_response, handle_ignored,
         handle_nonce_dropped, handle_nonce_found, handle_nonce_found_fails, Reads,
         NonceReported, InLoop, PhaseInv
<1>2. CASE handle_notify \/ handle_set_difficulty \/ handle_ignored
  <2>1. inbox # <<>> /\ inbox' = Tail(inbox)
    BY <1>2 DEF handle_notify, handle_set_difficulty, handle_ignored, Reads, NoOtherEffect
  <2>2. /\ UNCHANGED <<mgr, sid, request_id, pending_job, authorized, accepted, rejected,
                       shares, conn_open, lines, shutdown>>
    BY <1>2 DEF handle_notify, handle_set_difficulty, handle_ignored, NoOtherEffect, counters
  <2>3. state' \in ManagerState' /\ outbox' \in Seq(M!Command)
    <3>1. CASE handle_notify
      <4>1. Head(inbox).job_id \in Jobs /\ Head(inbox).clean_jobs \in BOOLEAN
        BY <1>0, <2>1, <3>1, HeadLine DEF handle_notify, Reads
      <4>2. state.difficulty \in Difficulties \cup {One}
        BY DEF ManagerState, TypeOK
      <4>3. outbox' \in Seq(M!Command)
        BY <1>1, <3>1, <4>1, <4>2, JobCommandsType DEF handle_notify, dispatch_job
      <4>4. state' = [state EXCEPT !.current_job = Head(inbox).job_id]
        BY <3>1 DEF handle_notify, dispatch_job
      <4> QED BY <2>2, <4>1, <4>3, <4>4 DEF ManagerState, TypeOK
    <3>2. CASE handle_set_difficulty
      <4> DEFINE d == Head(inbox).difficulty
      <4>1. d \in Difficulties
        BY <1>0, <2>1, <3>2, HeadLine DEF handle_set_difficulty, Reads
      <4>2. apply_difficulty(d)
        BY <3>2 DEF handle_set_difficulty
      <4> HIDE DEF d
      <4>3. outbox' \in Seq(M!Command)
        <5>1. CASE UNCHANGED outbox
          BY <1>0, <5>1
        <5>2. CASE state.current_job # None /\ outbox' = JobCommands(state.current_job, FALSE, d)
          <6>1. state.current_job \in Jobs
            BY <5>2 DEF ManagerState, TypeOK
          <6> QED BY <1>1, <4>1, <5>2, <6>1, JobCommandsType
        <5> QED BY <4>2, <5>1, <5>2 DEF apply_difficulty
      <4>4. state' = [state EXCEPT !.difficulty = d]
        BY <4>2 DEF apply_difficulty
      <4> QED BY <2>2, <4>1, <4>3, <4>4 DEF ManagerState, TypeOK
    <3>3. CASE handle_ignored
      BY <2>2, <3>3 DEF handle_ignored, ManagerState, TypeOK
    <3> QED BY <1>2, <3>1, <3>2, <3>3
  <2>4. inbox' \in Seq(Line)
    BY <1>0, <2>1, HeadLine
  <2>5. ManagerTypeOK'
    BY <2>2, <2>3, <2>4 DEF TypeOK
  <2> QED BY <1>1, <2>2, <2>5 DEF PhaseInv
<1>3. CASE handle_response
  <2>1. inbox # <<>> /\ inbox' = Tail(inbox)
    BY <1>3 DEF handle_response, Reads
  <2>2. UNCHANGED <<mgr, sid, request_id, pending_job, outbox, shares, conn_open, lines,
                    shutdown>>
    BY <1>3 DEF handle_response
  <2>3. settle_ids(Head(inbox)) /\ count_verdict(Head(inbox))
    BY <1>3 DEF handle_response
  <2>4. accepted' \in Nat /\ rejected' \in Nat
    BY <1>0, <2>3 DEF count_verdict
  <2>5. authorized' \in BOOLEAN \cup {None}
    BY <1>0, <2>3 DEF settle_ids, is_authorized
  <2>6. state' \in ManagerState'
    BY <1>0, <2>2, <2>3 DEF settle_ids, ManagerState
  <2>7. inbox' \in Seq(Line)
    BY <1>0, <2>1, HeadLine
  <2>8. ManagerTypeOK'
    BY <1>0, <2>2, <2>4, <2>5, <2>6, <2>7
  <2> QED BY <1>1, <2>2, <2>8 DEF PhaseInv
<1>4. CASE handle_nonce_dropped
  BY <1>0, <1>1, <1>4
     DEF handle_nonce_dropped, manager_vars, counters, conn, ManagerState, PhaseInv
<1>5. CASE handle_nonce_found
  <2>1. Head(result_ch) \in Work
    BY <1>5 DEF handle_nonce_found, NonceReported, TypeOK, M!TypeOK
  <2>2. /\ state' = [state EXCEPT !.pending_submit_ids = @ \cup {request_id}]
        /\ request_id' = request_id + 1
    BY <1>5 DEF handle_nonce_found, RecordSubmit
  <2>3. state' \in ManagerState'
    BY <1>0, <1>1, <2>2 DEF ManagerState
  <2>4. shares' \subseteq Share
    BY <1>0, <1>1, <1>5, <2>1 DEF handle_nonce_found, Share
  <2>5. UNCHANGED <<mgr, sid, pending_job, outbox, authorized, accepted, rejected, inbox,
                    conn_open, lines, shutdown>>
    BY <1>5 DEF handle_nonce_found, conn
  <2>6. ManagerTypeOK' /\ request_id' >= 3
    BY <1>0, <1>1, <2>2, <2>3, <2>4, <2>5
  <2> QED BY <1>1, <2>5, <2>6 DEF PhaseInv
<1>6. CASE handle_nonce_found_fails
  <2>1. mgr' = "failed" /\ state' = fresh_state /\ inbox' = <<>> /\ conn_open' = FALSE
    BY <1>6 DEF handle_nonce_found_fails, Disconnect
  <2>2. UNCHANGED <<sid, request_id, pending_job, outbox, authorized, accepted, rejected,
                    shares, lines, shutdown>>
    BY <1>6 DEF handle_nonce_found_fails, Disconnect, counters
  <2>3. ManagerTypeOK'
    BY <1>0, <2>1, <2>2, FreshType, NothingRead
  <2> QED BY <1>1, <2>1, <2>2, <2>3 DEF PhaseInv
<1> QED BY <1>2, <1>3, <1>4, <1>5, <1>6 DEF Loop

(* The end of a session, the commands and the cleanup. *)
LEMMA EndTypeStep ==
    ASSUME ManagerTypeOK, PhaseInv,
           \/ session_interrupted \/ connection_lost \/ shutdown_observed
           \/ send_next \/ Ending
    PROVE  ManagerTypeOK' /\ PhaseInv'
<1> USE DEF ManagerTypeOK
<1>1. CASE session_interrupted \/ connection_lost \/ shutdown_observed
  BY <1>1, StopType DEF session_interrupted, connection_lost, shutdown_observed, EndSession,
                        InLoop, counters, conn, ManagerState, PhaseInv
<1>2. CASE send_next
  <2>1. outbox' \in Seq(M!Command)
    BY <1>2 DEF send_next
  <2> QED BY <1>2, <2>1 DEF send_next, counters, conn, ManagerState, PhaseInv
<1>3. CASE session_over
  <2>1. /\ state' = fresh_state /\ inbox' = <<>> /\ conn_open' = FALSE
        /\ UNCHANGED <<sid, request_id, pending_job, authorized, accepted, rejected, shares,
                       lines, shutdown>>
    BY <1>3 DEF session_over, Disconnect, counters
  <2>2. /\ mgr' \in {"top", "cleanup"}
        /\ mgr' = "top" => outbox' = <<>>
        /\ outbox' \in Seq(M!Command)
    BY <1>3, StopType DEF session_over
  <2>3. ManagerTypeOK'
    BY <2>1, <2>2, FreshType, NothingRead
  <2> QED BY <2>2, <2>3 DEF PhaseInv
<1>4. CASE leave_loop \/ cleanup \/ finish
  BY <1>4, StopType DEF leave_loop, cleanup, finish, counters, conn, ManagerState, PhaseInv
<1> QED BY <1>1, <1>2, <1>3, <1>4 DEF Ending

LEMMA TypeStep == TypeOK /\ PhaseInv /\ [Next]_vars => TypeOK' /\ PhaseInv'
<1> SUFFICES ASSUME TypeOK, PhaseInv, [Next]_vars PROVE ManagerTypeOK' /\ PhaseInv'
  BY MinerTypeStep DEF TypeOK
<1>1. CASE MinerStep \/ Terminated \/ UNCHANGED vars
  BY <1>1 DEF MinerStep, Terminated, vars, manager_vars, counters, conn, TypeOK,
              ManagerTypeOK, ManagerState, PhaseInv
<1> QED BY <1>1, ConnectTypeStep, HandshakeTypeStep, LoopTypeStep, EndTypeStep
        DEF Next, Handshake, TypeOK

(* The variables keep their types, whatever the pool sends.                *)
THEOREM TypeCorrect == Spec => [](TypeOK /\ PhaseInv)
<1>1. Init => TypeOK /\ PhaseInv
  <2> SUFFICES ASSUME Init PROVE TypeOK /\ PhaseInv
    OBVIOUS
  <2>1. ManagerTypeOK
    <3>1. state \in ManagerState
      BY DEF Init, ManagerState, DefaultState
    <3>2. inbox \in Seq(Line) /\ outbox \in Seq(M!Command)
      BY NothingRead, StopType DEF Init
    <3>3. sid \in 0..MaxSessions /\ request_id \in Nat /\ accepted \in Nat /\ rejected \in Nat
      BY SessionAssumption DEF Init
    <3> QED BY <3>1, <3>2, <3>3 DEF Init, ManagerTypeOK
  <2>2. M!TypeOK
    <3>1. <<>> \in Seq(Work) /\ Len(<<>>) = 0
      OBVIOUS
    <3> QED BY <3>1, StopType, SessionAssumption DEF Init, M!Init, M!TypeOK, M!Command
  <2>3. PhaseInv
    BY DEF Init, PhaseInv
  <2> QED BY <2>1, <2>2, <2>3 DEF TypeOK
<1> QED BY <1>1, TypeStep, PTL DEF Spec

(* The manager of Session is one of the managers Miner allows.             *)
THEOREM MinerIsDrivenByManager == Spec => MinerIsDriven
<1>1. Init => M!Init
  BY DEF Init
<1>2. TypeOK /\ [Next]_vars => [M!OpenNext]_(M!vars)
  BY DrivesMiner DEF M!vars, miner_vars
<1> QED BY <1>1, <1>2, TypeCorrect, PTL DEF Spec, MinerIsDriven, M!OpenSpec

-----------------------------------------------------------------------------
(* Taking the head of a sequence leaves its last element last. *)
LEMMA LastOfTail ==
    ASSUME NEW S, NEW s \in Seq(S), s # <<>>
    PROVE  IF Tail(s) = <<>> THEN Last(s) = Head(s) ELSE Last(Tail(s)) = Last(s)
<1> DEFINE t == Tail(s)
<1>1. /\ Len(s) \in Nat \ {0}
      /\ t \in Seq(S) /\ Len(t) = Len(s) - 1
      /\ \A i \in 1..Len(t) : t[i] = s[i + 1]
      /\ Head(s) = s[1]
  OBVIOUS
<1> HIDE DEF t
<1>2. t = <<>> <=> Len(t) = 0
  BY <1>1, EmptySeq
<1>3. CASE Len(s) = 1
  BY <1>1, <1>2, <1>3 DEF Last, t
<1>4. CASE Len(s) > 1
  <2>1. t[Len(t)] = s[Len(s)]
    BY <1>1, <1>4
  <2> QED BY <1>1, <1>2, <1>4, <2>1 DEF Last, t
<1> QED BY <1>1, <1>3, <1>4

LEMMA LastOfAppend ==
    ASSUME NEW S, NEW s \in Seq(S), NEW e \in S
    PROVE  Append(s, e) # <<>> /\ Last(Append(s, e)) = e
BY DEF Last

(* What dispatch_job decides on last is the job. *)
LEMMA LastJobCommand ==
    ASSUME sid \in Sessions, NEW j \in Jobs, NEW c \in BOOLEAN,
           NEW d \in Difficulties \cup {One}
    PROVE  /\ JobCommands(j, c, d) # <<>>
           /\ \E w \in Work : /\ Last(JobCommands(j, c, d)) = M!NewJob(w)
                             /\ w.job = j
                             /\ w.en1 = sid
<1> DEFINE w == [job |-> j, en1 |-> sid, difficulty |-> d]
<1>1. w \in Work /\ w.job = j /\ w.en1 = sid
  BY DEF Work
<1>2. JobCommands(j, c, d) = (IF c THEN <<M!Stop>> ELSE <<>>) \o <<M!NewJob(w)>>
  BY DEF JobCommands
<1> HIDE DEF w
<1>3. JobCommands(j, c, d) # <<>> /\ Last(JobCommands(j, c, d)) = M!NewJob(w)
  BY <1>2 DEF Last
<1> QED BY <1>1, <1>3

(* On its way to the miner, the last command stays the last. *)
LEMMA LastCommandTravels ==
    ASSUME TypeOK, send_next \/ MinerStep
    PROVE  LastCommand' = LastCommand
<1>1. outbox \in Seq(M!Command) /\ job_ch \in Seq(M!Command)
  BY DEF TypeOK, ManagerTypeOK, M!TypeOK
<1>2. CASE send_next
  <2>1. /\ outbox # <<>> /\ outbox' = Tail(outbox)
        /\ job_ch' = Append(job_ch, Head(outbox)) /\ Head(outbox) \in M!Command
    BY <1>1, <1>2 DEF send_next, M!send_command
  <2>2. IF Tail(outbox) = <<>> THEN Last(outbox) = Head(outbox)
                               ELSE Last(Tail(outbox)) = Last(outbox)
    BY <1>1, <2>1, LastOfTail
  <2>3. job_ch' # <<>> /\ Last(job_ch') = Head(outbox)
    BY <1>1, <2>1, LastOfAppend
  <2> QED BY <2>1, <2>2, <2>3 DEF LastCommand, Last
<1>3. CASE MinerStep
  <2>0. UNCHANGED outbox
    BY <1>3 DEF MinerStep, manager_vars
  <2>1. CASE M!worker_new_job \/ M!worker_stop
    <3>1. job_ch # <<>> /\ job_ch' = Tail(job_ch) /\ slot' = Head(job_ch)
      BY <2>1 DEF M!worker_new_job, M!worker_stop
    <3>2. IF Tail(job_ch) = <<>> THEN Last(job_ch) = Head(job_ch)
                                 ELSE Last(Tail(job_ch)) = Last(job_ch)
      BY <1>1, <3>1, LastOfTail
    <3> QED BY <2>0, <3>1, <3>2 DEF LastCommand, Last
  <2>2. CASE M!worker_exit \/ M!Mining
    <3>1. UNCHANGED <<job_ch, slot>>
      BY <2>2 DEF M!worker_exit, M!Mining, M!task_find, M!task_send, M!task_stop
    <3> QED BY <2>0, <3>1 DEF LastCommand, Last
  <2> QED BY <1>3, <2>1, <2>2 DEF MinerStep, M!Worker
<1> QED BY <1>2, <1>3

LEMMA FollowsStep ==
    TypeOK /\ PhaseInv /\ MinerFollowsManager /\ [Next]_vars => MinerFollowsManager'
<1> SUFFICES ASSUME TypeOK, PhaseInv, MinerFollowsManager, [Next]_vars
             PROVE  MinerFollowsManager'
  OBVIOUS
<1>0. ManagerTypeOK
  BY DEF TypeOK
<1>1. CASE send_next \/ MinerStep
  <2>1. LastCommand' = LastCommand
    BY <1>1, LastCommandTravels
  <2>2. UNCHANGED <<mgr, state, sid>>
    BY <1>1 DEF send_next, MinerStep, manager_vars
  <2> QED BY <2>1, <2>2 DEF MinerFollowsManager
<1>2. CASE \/ Pool \/ request_shutdown \/ connect \/ connected \/ handshake_stores
           \/ handle_response \/ handle_ignored \/ handle_nonce_dropped
           \/ handle_nonce_found \/ cleanup \/ finish \/ Terminated \/ UNCHANGED vars
  <2>1. LastCommand' = LastCommand
    BY <1>2 DEF Pool, pool_sends, pool_closes, request_shutdown, connect, connected,
                handshake_stores, handle_response, handle_ignored, handle_nonce_dropped,
                handle_nonce_found, cleanup, finish, Terminated, vars, manager_vars,
                NoOtherEffect, miner_vars, M!recv_result, M!drop_job_tx, M!drop_channels,
                LastCommand, Last
  <2>2. \/ UNCHANGED mgr
        \/ mgr \notin {"session", "failed"} /\ mgr' \notin {"session", "failed"}
    BY <1>2 DEF Pool, pool_sends, pool_closes, request_shutdown, connect, connected,
                handshake_stores, handle_response, handle_ignored, handle_nonce_dropped,
                handle_nonce_found, cleanup, finish, Terminated, vars, manager_vars,
                NoOtherEffect
  <2>3. mgr = "session" => UNCHANGED sid /\ state'.current_job = state.current_job
    BY <1>0, <1>2 DEF Pool, pool_sends, pool_closes, request_shutdown, connect, connected,
                handshake_stores, handle_response, handle_ignored, handle_nonce_dropped,
                handle_nonce_found, cleanup, finish, Terminated, vars, manager_vars,
                NoOtherEffect, settle_ids, RecordSubmit, ManagerTypeOK, ManagerState
  <2> QED BY <2>1, <2>2, <2>3 DEF MinerFollowsManager
<1>3. CASE connect_fails \/ handshake_fails \/ session_over \/ leave_loop
  <2>1. mgr' \in {"top", "cleanup"} /\ (UNCHANGED outbox \/ outbox' = <<M!Stop>>)
    BY <1>3 DEF connect_fails, handshake_fails, session_over, leave_loop, GiveUpAttempt,
                PhaseInv
  <2>2. UNCHANGED <<job_ch, slot>> /\ mgr \notin {"session", "failed"}
    BY <1>3 DEF connect_fails, handshake_fails, session_over, leave_loop, miner_vars
  <2> QED BY <2>1, <2>2 DEF MinerFollowsManager, LastCommand, Last
<1>4. CASE session_interrupted \/ connection_lost \/ shutdown_observed
  <2>1. mgr' = "ending" /\ outbox' = <<M!Stop>>
    BY <1>4 DEF session_interrupted, connection_lost, shutdown_observed, EndSession
  <2> QED BY <2>1 DEF MinerFollowsManager, LastCommand, Last
<1>5. CASE handle_nonce_found_fails
  BY <1>5 DEF handle_nonce_found_fails, MinerFollowsManager
<1>6. CASE subscribed
  <2>1. mgr = "handshake" /\ mgr' = "session" /\ UNCHANGED <<sid, job_ch, slot>>
    BY <1>6 DEF subscribed, NoOtherEffect, miner_vars
  <2>2. CASE pending_job = None
    <3>1. state'.current_job = None /\ UNCHANGED outbox
      BY <1>0, <1>6, <2>1, <2>2 DEF subscribed, PhaseInv, ManagerTypeOK, ManagerState
    <3> QED BY <2>1, <3>1 DEF MinerFollowsManager, LastCommand, Last
  <2>3. CASE pending_job # None
    <3> DEFINE j == pending_job.job_id
               c == pending_job.clean_jobs
               d == state.difficulty
    <3>1. sid \in Sessions /\ j \in Jobs /\ c \in BOOLEAN /\ d \in Difficulties \cup {One}
      BY <1>0, <2>1, <2>3 DEF PhaseInv, ManagerTypeOK, ManagerState
    <3>2. outbox' = JobCommands(j, c, d) /\ state'.current_job = j
      BY <1>0, <1>6, <2>3 DEF subscribed, ManagerTypeOK, ManagerState
    <3> HIDE DEF j, c, d
    <3>3. /\ outbox' # <<>>
          /\ \E w \in Work : /\ Last(outbox') = M!NewJob(w)
                            /\ w.job = j
                            /\ w.en1 = sid
      BY <3>1, <3>2, LastJobCommand
    <3> QED BY <2>1, <3>1, <3>2, <3>3, SessionAssumption DEF MinerFollowsManager, LastCommand, Last
  <2> QED BY <2>2, <2>3
<1>7. CASE handle_notify \/ handle_set_difficulty
  <2>1. mgr = "session" /\ UNCHANGED <<mgr, sid, job_ch, slot>> /\ sid \in Sessions
    BY <1>7 DEF handle_notify, handle_set_difficulty, Reads, InLoop, NoOtherEffect,
                miner_vars, PhaseInv
  <2>2. CASE state'.current_job = state.current_job /\ UNCHANGED outbox
    BY <2>1, <2>2 DEF MinerFollowsManager, LastCommand, Last
  <2>3. CASE \E j \in Jobs, c \in BOOLEAN, d \in Difficulties \cup {One} :
                 state'.current_job = j /\ outbox' = JobCommands(j, c, d)
    <3>1. PICK j \in Jobs, c \in BOOLEAN, d \in Difficulties \cup {One} :
                   state'.current_job = j /\ outbox' = JobCommands(j, c, d)
      BY <2>3
    <3>2. /\ outbox' # <<>>
          /\ \E w \in Work : /\ Last(outbox') = M!NewJob(w)
                            /\ w.job = j
                            /\ w.en1 = sid
      BY <2>1, <3>1, LastJobCommand
    <3> QED BY <2>1, <3>1, <3>2, SessionAssumption DEF MinerFollowsManager, LastCommand, Last
  <2>4. CASE handle_notify
    <3>1. Head(inbox).job_id \in Jobs /\ Head(inbox).clean_jobs \in BOOLEAN
      BY <1>0, <2>4, HeadLine DEF handle_notify, Reads
    <3>2. state'.current_job = Head(inbox).job_id /\ state.difficulty \in Difficulties \cup {One}
      BY <1>0, <2>4 DEF handle_notify, dispatch_job, ManagerTypeOK, ManagerState
    <3>3. outbox' = JobCommands(Head(inbox).job_id, Head(inbox).clean_jobs, state.difficulty)
      BY <2>4 DEF handle_notify, dispatch_job
    <3> QED BY <2>3, <3>1, <3>2, <3>3
  <2>5. CASE handle_set_difficulty
    <3>1. Head(inbox).difficulty \in Difficulties
      BY <1>0, <2>5, HeadLine DEF handle_set_difficulty, Reads
    <3>2. state'.current_job = state.current_job /\ state.current_job \in Jobs \cup {None}
      BY <1>0, <2>5 DEF handle_set_difficulty, apply_difficulty, ManagerTypeOK, ManagerState
    <3>3. \/ UNCHANGED outbox
          \/ /\ state.current_job # None
             /\ outbox' = JobCommands(state.current_job, FALSE, Head(inbox).difficulty)
      BY <2>5 DEF handle_set_difficulty, apply_difficulty
    <3> QED BY <2>2, <2>3, <3>1, <3>2, <3>3
  <2> QED BY <1>7, <2>4, <2>5
<1> QED BY <1>1, <1>2, <1>3, <1>4, <1>5, <1>6, <1>7 DEF Next, Handshake, Loop, Ending

(* The miner is always on its way to what the manager wants.               *)
THEOREM MinerFollows == Spec => []MinerFollowsManager
<1>1. Init => MinerFollowsManager
  BY DEF Init, M!Init, MinerFollowsManager, LastCommand
<1> QED BY <1>1, FollowsStep, TypeCorrect, PTL DEF Spec

=============================================================================
