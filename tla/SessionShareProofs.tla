------------------------ MODULE SessionShareProofs ------------------------
(***************************************************************************)
(* What becomes of the shares of a session: how they are counted, which    *)
(* connection they go to, and that the work in hand is worth a share.      *)
(***************************************************************************)
EXTENDS SessionProofs, FiniteSetTheorems

(* Shares are numbered within a connection by the request id, so a share   *)
(* that is written is a new one and its id is not pending.                 *)
ShareInv ==
    /\ IsFiniteSet(shares)
    /\ \A s \in shares : s.sid <= sid /\ (s.sid = sid => s.id < request_id)
    /\ PendingIsOfThisSession

(* The steps that write no share, settle none and forget none. *)
QuietStep ==
    \/ Pool \/ request_shutdown \/ connect \/ handshake_stores \/ subscribed
    \/ handle_notify \/ handle_set_difficulty \/ handle_ignored \/ handle_nonce_dropped
    \/ session_interrupted \/ connection_lost \/ shutdown_observed \/ send_next
    \/ leave_loop \/ cleanup \/ finish \/ MinerStep \/ Terminated \/ UNCHANGED vars

(* The steps after which no share is pending. *)
ResetStep ==
    \/ connected \/ connect_fails \/ handshake_fails \/ handle_nonce_found_fails
    \/ session_over

LEMMA StepKinds ==
    [Next]_vars => QuietStep \/ ResetStep \/ handle_response \/ handle_nonce_found
BY DEF Next, Handshake, Loop, Ending, QuietStep, ResetStep

LEMMA QuietEffect ==
    ASSUME TypeOK, PhaseInv, QuietStep
    PROVE  /\ UNCHANGED <<sid, accepted, rejected, shares>>
           /\ state'.pending_submit_ids = state.pending_submit_ids
           /\ request_id' \in Nat /\ request_id <= request_id'
<1>0. ManagerTypeOK
  BY DEF TypeOK
<1>1. CASE Pool \/ request_shutdown \/ connect \/ handle_ignored \/ handle_nonce_dropped
  BY <1>0, <1>1 DEF Pool, pool_sends, pool_closes, request_shutdown, connect,
                    handle_ignored, handle_nonce_dropped, NoOtherEffect, counters,
                    manager_vars, ManagerTypeOK
<1>2. CASE handshake_stores \/ subscribed
  <2>1. UNCHANGED <<sid, accepted, rejected, shares>>
    BY <1>2 DEF handshake_stores, subscribed, NoOtherEffect, counters
  <2>2. state'.pending_submit_ids = state.pending_submit_ids
    BY <1>0, <1>2 DEF handshake_stores, subscribed, ManagerTypeOK, ManagerState
  <2>3. request_id' \in Nat /\ request_id <= request_id'
    BY <1>0, <1>2 DEF handshake_stores, subscribed, PhaseInv, ManagerTypeOK
  <2> QED BY <2>1, <2>2, <2>3
<1>3. CASE handle_notify \/ handle_set_difficulty
  <2>1. UNCHANGED <<sid, accepted, rejected, shares, request_id>>
    BY <1>3 DEF handle_notify, handle_set_difficulty, NoOtherEffect, counters
  <2>2. \/ state' = [state EXCEPT !.current_job = Head(inbox).job_id]
        \/ state' = [state EXCEPT !.difficulty = Head(inbox).difficulty]
    BY <1>3 DEF handle_notify, handle_set_difficulty, dispatch_job, apply_difficulty
  <2>3. state'.pending_submit_ids = state.pending_submit_ids
    BY <1>0, <2>2 DEF ManagerTypeOK, ManagerState
  <2> QED BY <1>0, <2>1, <2>3 DEF ManagerTypeOK
<1>4. CASE \/ session_interrupted \/ connection_lost \/ shutdown_observed \/ send_next
           \/ leave_loop \/ cleanup \/ finish
  BY <1>0, <1>4 DEF session_interrupted, connection_lost, shutdown_observed, EndSession,
                    send_next, leave_loop, cleanup, finish, counters, ManagerTypeOK
<1>5. CASE MinerStep \/ Terminated \/ UNCHANGED vars
  BY <1>0, <1>5 DEF MinerStep, Terminated, vars, manager_vars, counters, ManagerTypeOK
<1> QED BY <1>1, <1>2, <1>3, <1>4, <1>5 DEF QuietStep

LEMMA ResetEffect ==
    ASSUME TypeOK, ResetStep
    PROVE  /\ UNCHANGED <<accepted, rejected, shares>>
           /\ state'.pending_submit_ids = {}
           /\ \/ sid' = sid + 1
              \/ UNCHANGED <<sid, request_id>>
BY DEF ResetStep, connected, connect_fails, handshake_fails, handle_nonce_found_fails,
       session_over, GiveUpAttempt, counters, fresh_state, DefaultState

(* What is written is new. *)
LEMMA WrittenShare ==
    ASSUME TypeOK, PhaseInv, ShareInv, handle_nonce_found
    PROVE  LET new == [sid |-> sid, id |-> request_id, work |-> Head(result_ch)]
           IN  /\ new \notin shares
               /\ shares' = shares \cup {new}
               /\ request_id \notin state.pending_submit_ids
               /\ state'.pending_submit_ids = state.pending_submit_ids \cup {request_id}
               /\ request_id' = request_id + 1
               /\ UNCHANGED <<sid, accepted, rejected>>
<1>1. state \in ManagerState /\ request_id \in Nat
  BY DEF TypeOK, ManagerTypeOK
<1>2. request_id \notin state.pending_submit_ids
  BY <1>1 DEF ManagerState
<1>3. /\ state' = [state EXCEPT !.pending_submit_ids = @ \cup {request_id}]
      /\ request_id' = request_id + 1
  BY DEF handle_nonce_found, RecordSubmit
<1>4. state'.pending_submit_ids = state.pending_submit_ids \cup {request_id}
  BY <1>1, <1>3 DEF ManagerState
<1>5. \A s \in shares : s.sid = sid => s.id # request_id
  BY <1>1 DEF ShareInv, TypeOK, ManagerTypeOK, Share
<1> QED BY <1>2, <1>3, <1>4, <1>5 DEF handle_nonce_found

LEMMA ShareStep == TypeOK /\ PhaseInv /\ ShareInv /\ [Next]_vars => ShareInv'
<1> SUFFICES ASSUME TypeOK, PhaseInv, ShareInv, [Next]_vars PROVE ShareInv'
  OBVIOUS
<1>0. ManagerTypeOK
  BY DEF TypeOK
<1>1. sid \in Int /\ request_id \in Nat /\ \A s \in shares : s.sid \in Int /\ s.id \in Nat
  BY <1>0 DEF ManagerTypeOK, Share, Sessions
<1>2. CASE QuietStep
  BY <1>1, <1>2, QuietEffect DEF ShareInv, PendingIsOfThisSession
<1>3. CASE ResetStep
  BY <1>1, <1>3, ResetEffect DEF ShareInv, PendingIsOfThisSession
<1>4. CASE handle_response
  <2>1. UNCHANGED <<sid, shares, request_id>>
    BY <1>4 DEF handle_response
  <2>2. state'.pending_submit_ids \subseteq state.pending_submit_ids
    BY <1>0, <1>4 DEF handle_response, settle_ids, ManagerTypeOK, ManagerState
  <2> QED BY <2>1, <2>2 DEF ShareInv, PendingIsOfThisSession
<1>5. CASE handle_nonce_found
  <2> DEFINE new == [sid |-> sid, id |-> request_id, work |-> Head(result_ch)]
  <2>1. /\ shares' = shares \cup {new}
        /\ state'.pending_submit_ids = state.pending_submit_ids \cup {request_id}
        /\ request_id' = request_id + 1
        /\ UNCHANGED sid
    BY <1>5, WrittenShare
  <2>2. new.sid = sid /\ new.id = request_id
    OBVIOUS
  <2> HIDE DEF new
  <2>3. IsFiniteSet(shares')
    BY <2>1, FS_AddElement DEF ShareInv
  <2>4. \A s \in shares' : s.sid <= sid' /\ (s.sid = sid' => s.id < request_id')
    BY <1>1, <2>1, <2>2 DEF ShareInv
  <2>5. PendingIsOfThisSession'
    BY <2>1, <2>2 DEF ShareInv, PendingIsOfThisSession
  <2> QED BY <2>3, <2>4, <2>5 DEF ShareInv
<1> QED BY <1>2, <1>3, <1>4, <1>5, StepKinds

LEMMA ShareInvariant == Spec => []ShareInv
<1>1. Init => ShareInv
  BY FS_EmptySet DEF Init, DefaultState, ShareInv, PendingIsOfThisSession
<1> QED BY <1>1, ShareStep, TypeCorrect, PTL DEF Spec

(* A pending id is that of a share of this connection.                     *)
THEOREM PendingIsOwn == Spec => []PendingIsOfThisSession
BY ShareInvariant, PTL DEF ShareInv

-----------------------------------------------------------------------------
LEMMA LedgerStep ==
    TypeOK /\ PhaseInv /\ ShareInv /\ [Next]_vars => [Ledger!Next]_(Ledger!vars)
<1> SUFFICES ASSUME TypeOK, PhaseInv, ShareInv, [Next]_vars
             PROVE  [Ledger!Next]_(Ledger!vars)
  OBVIOUS
<1> DEFINE pending == state.pending_submit_ids
<1>0. state \in ManagerState /\ request_id \in Nat
  BY DEF TypeOK, ManagerTypeOK
<1>1. IsFiniteSet(pending) /\ Cardinality(pending) \in Nat
  <2>1. pending \subseteq 3..(request_id - 1)
    BY <1>0 DEF ManagerState
  <2>2. IsFiniteSet(3..(request_id - 1))
    BY <1>0, FS_Interval
  <2> QED BY <2>1, <2>2, FS_Subset, FS_CardinalityType
<1>2. CASE QuietStep
  BY <1>2, QuietEffect DEF Ledger!vars
<1>3. CASE ResetStep
  BY <1>3, ResetEffect, FS_EmptySet DEF Ledger!Next, Ledger!GiveUp
<1>4. CASE handle_response
  <2> DEFINE resp == Head(inbox)
  <2>1. pending' = pending \ {resp.id} /\ UNCHANGED shares
    BY <1>0, <1>4 DEF handle_response, settle_ids, ManagerState
  <2>2. count_verdict(resp)
    BY <1>4 DEF handle_response
  <2> HIDE DEF resp
  <2>3. CASE resp.id \in pending
    <3>1. Cardinality(pending') = Cardinality(pending) - 1
      BY <1>1, <2>1, <2>3, FS_RemoveElement
    <3>2. Cardinality(pending) > 0
      BY <1>1, <2>3, FS_EmptySet
    <3>3. \/ accepted' = accepted + 1 /\ UNCHANGED rejected
          \/ rejected' = rejected + 1 /\ UNCHANGED accepted
      BY <2>2, <2>3 DEF count_verdict
    <3> QED BY <2>1, <3>1, <3>2, <3>3
            DEF Ledger!Next, Ledger!Accept, Ledger!Reject, Ledger!Answered
  <2>4. CASE resp.id \notin pending
    <3>1. pending' = pending /\ UNCHANGED <<accepted, rejected>>
      BY <2>1, <2>2, <2>4 DEF count_verdict
    <3> QED BY <2>1, <3>1 DEF Ledger!vars
  <2> QED BY <2>3, <2>4
<1>5. CASE handle_nonce_found
  <2> DEFINE new == [sid |-> sid, id |-> request_id, work |-> Head(result_ch)]
  <2>1. /\ new \notin shares
        /\ shares' = shares \cup {new}
        /\ request_id \notin pending
        /\ pending' = pending \cup {request_id}
        /\ UNCHANGED <<accepted, rejected>>
    BY <1>5, WrittenShare
  <2> HIDE DEF new
  <2>2. Cardinality(shares') = Cardinality(shares) + 1
    BY <2>1, FS_AddElement DEF ShareInv
  <2>3. Cardinality(pending') = Cardinality(pending) + 1
    BY <1>1, <2>1, FS_AddElement
  <2> QED BY <2>1, <2>2, <2>3 DEF Ledger!Next, Ledger!Submit
<1> QED BY <1>2, <1>3, <1>4, <1>5, StepKinds

(* Session implements ShareLedger.                                         *)
THEOREM LedgerIsImplemented == Spec => SharesAreCountedOnce
<1>1. Init => Ledger!Init
  BY FS_EmptySet DEF Init, DefaultState, Ledger!Init
<1>2. TypeOK /\ PhaseInv /\ ShareInv /\ [Next]_vars => [Ledger!Next]_(Ledger!vars)
  BY LedgerStep
<1> QED BY <1>1, <1>2, TypeCorrect, ShareInvariant, PTL
        DEF Spec, SharesAreCountedOnce, Ledger!Spec

(* No share of a session is counted twice, and none that was not written. *)
THEOREM SharesAreConserved == Spec => []Ledger!Conservation
<1> DEFINE Inv == TypeOK /\ PhaseInv /\ ShareInv
<1>1. Init => Ledger!Conservation
  BY FS_EmptySet DEF Init, DefaultState, Ledger!Conservation
<1>2. Inv /\ Ledger!Conservation /\ [Next]_vars => Ledger!Conservation'
  <2> SUFFICES ASSUME Inv, Ledger!Conservation, [Next]_vars PROVE Ledger!Conservation'
    OBVIOUS
  <2>1. /\ accepted \in Nat /\ rejected \in Nat /\ IsFiniteSet(shares)
        /\ state.pending_submit_ids \subseteq 3..(request_id - 1) /\ request_id \in Nat
    BY DEF TypeOK, ManagerTypeOK, ManagerState, ShareInv
  <2>2. Cardinality(shares) \in Nat /\ Cardinality(state.pending_submit_ids) \in Nat
    <3>1. IsFiniteSet(3..(request_id - 1))
      BY <2>1, FS_Interval
    <3> QED BY <2>1, <3>1, FS_Subset, FS_CardinalityType
  <2>3. [Ledger!Next]_(Ledger!vars)
    BY LedgerStep
  <2> QED BY <2>1, <2>2, <2>3
          DEF Ledger!Next, Ledger!Submit, Ledger!Accept, Ledger!Reject, Ledger!Answered,
              Ledger!GiveUp, Ledger!vars, Ledger!Conservation
<1> QED BY <1>1, <1>2, TypeCorrect, ShareInvariant, PTL DEF Spec

-----------------------------------------------------------------------------
(* Once an authorize response counted, none is awaited. *)
AuthorizeInv ==
    mgr = "session" /\ authorized # None => state.authorize_request_id = None

LEMMA AuthorizeChanges ==
    ASSUME TypeOK, PhaseInv, [Next]_vars
    PROVE  \/ handle_response
           \/ connected
           \/ subscribed
           \/ /\ UNCHANGED authorized
              /\ mgr' = "session" => /\ mgr = "session"
                                    /\ UNCHANGED state.authorize_request_id
<1>0. state \in ManagerState
  BY DEF TypeOK, ManagerTypeOK
<1>1. CASE Pool \/ request_shutdown \/ connect \/ handshake_stores \/ handle_ignored
  BY <1>1 DEF Pool, pool_sends, pool_closes, request_shutdown, connect, handshake_stores,
              handle_ignored, NoOtherEffect
<1>2. CASE handle_notify \/ handle_set_difficulty \/ handle_nonce_found
  BY <1>0, <1>2 DEF handle_notify, handle_set_difficulty, handle_nonce_found,
                    dispatch_job, apply_difficulty, RecordSubmit, NoOtherEffect, Reads,
                    NonceReported, InLoop, ManagerState
<1>3. CASE \/ session_interrupted \/ connection_lost \/ shutdown_observed \/ leave_loop
           \/ cleanup \/ finish \/ session_over \/ connect_fails \/ handshake_fails
           \/ handle_nonce_found_fails
  BY <1>3 DEF session_interrupted, connection_lost, shutdown_observed, EndSession,
              leave_loop, cleanup, finish, session_over, connect_fails, handshake_fails,
              GiveUpAttempt, handle_nonce_found_fails
<1>4. CASE \/ send_next \/ handle_nonce_dropped \/ MinerStep \/ Terminated
           \/ UNCHANGED vars
  BY <1>4 DEF send_next, handle_nonce_dropped, MinerStep, Terminated, vars, manager_vars
<1> QED BY <1>1, <1>2, <1>3, <1>4 DEF Next, Handshake, Loop, Ending

LEMMA AuthorizeStep ==
    TypeOK /\ PhaseInv /\ AuthorizeInv /\ [Next]_vars => AuthorizeInv'
<1> SUFFICES ASSUME TypeOK, PhaseInv, AuthorizeInv, [Next]_vars PROVE AuthorizeInv'
  OBVIOUS
<1>1. CASE handle_response
  BY <1>1 DEF handle_response, settle_ids, Reads, InLoop, AuthorizeInv, TypeOK,
              ManagerTypeOK, ManagerState
<1>2. CASE connected \/ subscribed
  BY <1>2 DEF connected, subscribed, PhaseInv, AuthorizeInv
<1> QED BY <1>1, <1>2, AuthorizeChanges DEF AuthorizeInv

(* No later response changes what the first authorize response settled.    *)
THEOREM FirstAuthorizeIsFinal == Spec => FirstAuthorizeWins
<1>1. Init => AuthorizeInv
  BY DEF Init, AuthorizeInv
<1>2. TypeOK /\ PhaseInv /\ AuthorizeInv /\ [Next]_vars
        => [authorized # None /\ sid' = sid => authorized' = authorized]_vars
  <2> SUFFICES ASSUME TypeOK, PhaseInv, AuthorizeInv, [Next]_vars,
                      authorized # None, sid' = sid
               PROVE  authorized' = authorized
    OBVIOUS
  <2>1. CASE handle_response
    BY <2>1 DEF handle_response, settle_ids, Reads, InLoop, AuthorizeInv
  <2>2. CASE connected
    BY <2>2 DEF connected, TypeOK, ManagerTypeOK
  <2>3. CASE subscribed
    BY <2>3 DEF subscribed
  <2> QED BY <2>1, <2>2, <2>3, AuthorizeChanges
<1> QED BY <1>1, <1>2, AuthorizeStep, TypeCorrect, PTL DEF Spec, FirstAuthorizeWins

-----------------------------------------------------------------------------
(***************************************************************************)
(* A share goes to no connection whose pool does not use its job id.  A    *)
(* nonce may well be reported after its connection ended: its job is still *)
(* a job of that connection, all the way from the pool's line to the       *)
(* report, while the current job is one of the present connection.         *)
(***************************************************************************)
OwnWork == {w \in Work : w.job \in JobsOf[w.en1]}

(* The miner, restricted to such work. *)
MO == INSTANCE MinerProofs WITH
        Work <- OwnWork,
        BadWork <- {w \in OwnWork : w.job \in BadJobs},
        MaxCommands <- 0

WorkInv ==
    /\ state.current_job # None => state.current_job \in JobsOf[sid]
    /\ pending_job # None => pending_job.job_id \in JobsOf[sid]
    /\ inbox \in Seq(Sendable)
    /\ outbox \in Seq(MO!Command)
    /\ MO!TypeOK

LEMMA OwnMinerConstants ==
    /\ Threads # {}
    /\ {w \in OwnWork : w.job \in BadJobs} \subseteq OwnWork
    /\ JobCap \in Nat \ {0}
    /\ ResultCap \in Nat \ {0}
    /\ 0 \in Nat
BY SessionAssumption

LEMMA OwnCommandKinds ==
    /\ MO!Stop = M!Stop
    /\ \A w \in OwnWork : M!NewJob(w) \in MO!Command
    /\ \A c \in MO!Command : c.cmd = "NewJob" => c.work \in OwnWork
<1>1. MO!Stop = M!Stop
  BY DEF MO!Stop, M!Stop
<1>2. \A w \in OwnWork : M!NewJob(w) \in MO!Command
  BY DEF MO!Command, MO!NewJob, M!NewJob
<1>3. \A c \in MO!Command : c.cmd = "NewJob" => c.work \in OwnWork
  BY DEF MO!Command, MO!Stop, MO!NewJob
<1> QED BY <1>1, <1>2, <1>3

LEMMA OwnStopType == <<M!Stop>> \in Seq(MO!Command) /\ <<>> \in Seq(MO!Command)
<1>1. M!Stop \in MO!Command
  BY DEF MO!Command, MO!Stop, M!Stop
<1> QED BY <1>1

LEMMA OwnJobCommands ==
    ASSUME sid \in Sessions, NEW j \in Jobs, NEW c \in BOOLEAN,
           NEW d \in Difficulties \cup {One}, j \in JobsOf[sid]
    PROVE  JobCommands(j, c, d) \in Seq(MO!Command)
<1> DEFINE w == [job |-> j, en1 |-> sid, difficulty |-> d]
<1>1. w \in OwnWork
  BY DEF OwnWork, Work
<1>2. JobCommands(j, c, d) = (IF c THEN <<M!Stop>> ELSE <<>>) \o <<M!NewJob(w)>>
  BY DEF JobCommands
<1> HIDE DEF w
<1>3. <<M!NewJob(w)>> \in Seq(MO!Command)
  BY <1>1, OwnCommandKinds
<1> QED BY <1>2, <1>3, OwnStopType

-----------------------------------------------------------------------------
(* A step of the miner on such work is a step of MO.                       *)
LEMMA OwnMinerStep ==
    ASSUME MO!TypeOK, MinerStep
    PROVE  MO!OpenNext
<1>1. CASE M!worker_new_job
  <2>1. Head(job_ch) \in MO!Command /\ Head(job_ch).cmd = "NewJob"
    BY <1>1 DEF M!worker_new_job, MO!TypeOK
  <2>2. Head(job_ch).work \in OwnWork
    BY <2>1, OwnCommandKinds
  <2>3. \A e : MO!Spawned(e, Head(job_ch).work) = M!Spawned(e, Head(job_ch).work)
    BY <2>2 DEF MO!Spawned, M!Spawned, OwnWork
  <2>4. MO!worker_new_job
    BY <1>1, <2>3 DEF M!worker_new_job, MO!worker_new_job, M!NextEpoch, MO!NextEpoch
  <2> QED BY <2>4 DEF MO!OpenNext, MO!Worker
<1>2. CASE M!worker_stop \/ M!worker_exit
  BY <1>2 DEF M!worker_stop, M!worker_exit, MO!worker_stop, MO!worker_exit, M!NextEpoch,
              MO!NextEpoch, M!Stop, MO!Stop, MO!OpenNext, MO!Worker
<1>3. CASE M!Mining
  <2>1. MO!Mining
    BY <1>3, Zenon DEF MO!Mining, MO!task_find, MO!task_send, MO!task_stop,
           MO!EpochLoads, MO!Replace, M!Mining, M!task_find, M!task_send, M!task_stop,
           M!EpochLoads, M!Replace
  <2> QED BY <2>1 DEF MO!OpenNext
<1> QED BY <1>1, <1>2, <1>3 DEF MinerStep, M!Worker

(* The manager gives the miner such work only. *)
LEMMA DrivesOwnMiner == WorkInv /\ [Next]_vars => [MO!OpenNext]_(MO!vars)
<1> SUFFICES ASSUME WorkInv, [Next]_vars PROVE MO!OpenNext \/ UNCHANGED MO!vars
  OBVIOUS
<1> USE DEF MO!vars, miner_vars
<1>1. CASE Pool \/ request_shutdown \/ connect \/ Handshake
  BY <1>1 DEF Pool, pool_sends, pool_closes, request_shutdown, connect, Handshake,
              connected, connect_fails, handshake_stores, subscribed, handshake_fails,
              NoOtherEffect
<1>2. CASE Loop
  BY <1>2 DEF Loop, handle_notify, handle_set_difficulty, handle_response,
              handle_ignored, handle_nonce_dropped, handle_nonce_found,
              handle_nonce_found_fails, NoOtherEffect, M!recv_result, MO!recv_result,
              M!drop_channels, MO!drop_channels, MO!OpenNext, MO!Manager
<1>3. CASE session_interrupted \/ connection_lost \/ shutdown_observed
  BY <1>3 DEF session_interrupted, connection_lost, shutdown_observed, EndSession
<1>4. CASE send_next
  <2>1. Head(outbox) \in MO!Command
    BY <1>4 DEF send_next, WorkInv
  <2>2. MO!send_command(Head(outbox))
    BY <1>4 DEF send_next, M!send_command, MO!send_command
  <2> QED BY <2>1, <2>2 DEF MO!OpenNext, MO!Manager
<1>5. CASE Ending
  BY <1>5 DEF Ending, session_over, leave_loop, cleanup, finish, M!drop_job_tx,
              MO!drop_job_tx, M!drop_channels, MO!drop_channels, MO!OpenNext, MO!Manager
<1>6. CASE MinerStep
  BY <1>6, OwnMinerStep DEF WorkInv
<1>7. CASE Terminated \/ UNCHANGED vars
  BY <1>7 DEF Terminated, vars
<1> QED BY <1>1, <1>2, <1>3, <1>4, <1>5, <1>6, <1>7 DEF Next

LEMMA OwnTypeStep == WorkInv /\ [Next]_vars => MO!TypeOK'
<1>1. MO!TypeOK /\ [MO!OpenNext]_(MO!vars) => MO!TypeOK'
  BY OwnMinerConstants, MO!TypeStep DEF MO!MinerAssumption
<1> QED BY <1>1, DrivesOwnMiner DEF WorkInv

-----------------------------------------------------------------------------
LEMMA OwnHeadLine ==
    ASSUME WorkInv, inbox # <<>>
    PROVE  /\ Tail(inbox) \in Seq(Sendable)
           /\ Head(inbox).kind = "notify" => Head(inbox).job_id \in JobsOf[sid]
<1>1. Head(inbox) \in Sendable /\ Tail(inbox) \in Seq(Sendable)
  BY DEF WorkInv
<1> QED BY <1>1 DEF Sendable

LEMMA NothingSent == <<>> \in Seq(Sendable')
OBVIOUS

LEMMA WorkStep == TypeOK /\ PhaseInv /\ WorkInv /\ [Next]_vars => WorkInv'
<1> SUFFICES ASSUME TypeOK, PhaseInv, WorkInv, [Next]_vars PROVE WorkInv'
  OBVIOUS
<1>0. ManagerTypeOK /\ MO!TypeOK'
  BY OwnTypeStep DEF TypeOK
<1>1. CASE connected
  <2>1. state'.current_job = None /\ pending_job' = None /\ inbox' = <<>> /\ UNCHANGED outbox
    BY <1>1 DEF connected, fresh_state, DefaultState
  <2> QED BY <1>0, <2>1, NothingSent DEF WorkInv
<1>2. CASE connect_fails \/ handshake_fails \/ session_over \/ handle_nonce_found_fails
  <2>1. state'.current_job = None
    BY <1>2 DEF connect_fails, handshake_fails, session_over, handle_nonce_found_fails,
                GiveUpAttempt, fresh_state, DefaultState
  <2>2. (pending_job' = None \/ UNCHANGED pending_job) /\ UNCHANGED sid
    BY <1>2 DEF connect_fails, handshake_fails, session_over, handle_nonce_found_fails,
                GiveUpAttempt
  <2>3. inbox' = inbox \/ inbox' = <<>>
    BY <1>2 DEF connect_fails, handshake_fails, session_over, handle_nonce_found_fails,
                Disconnect, conn
  <2>4. outbox' \in Seq(MO!Command)
    BY <1>2, OwnStopType DEF connect_fails, handshake_fails, session_over,
       handle_nonce_found_fails, GiveUpAttempt, WorkInv
  <2>5. Sendable' = Sendable
    BY <2>2 DEF Sendable
  <2> QED BY <1>0, <2>1, <2>2, <2>3, <2>4, <2>5, NothingSent DEF WorkInv
<1>3. CASE UNCHANGED sid /\ UNCHANGED <<state.current_job, pending_job>>
           /\ inbox' \in Seq(Sendable) /\ outbox' \in Seq(MO!Command)
  BY <1>0, <1>3 DEF WorkInv, Sendable
<1>4. CASE \/ pool_closes \/ request_shutdown \/ connect \/ handle_nonce_dropped
           \/ handle_nonce_found \/ cleanup \/ finish \/ MinerStep \/ Terminated
           \/ UNCHANGED vars
  <2>1. UNCHANGED <<sid, pending_job, inbox, outbox>>
    BY <1>4 DEF pool_closes, request_shutdown, connect, handle_nonce_dropped,
       handle_nonce_found, cleanup, finish, MinerStep, Terminated, vars, manager_vars, conn
  <2>2. UNCHANGED state.current_job
    BY <1>0, <1>4 DEF pool_closes, request_shutdown, connect, handle_nonce_dropped,
       handle_nonce_found, cleanup, finish, MinerStep, Terminated, vars, manager_vars,
       RecordSubmit, ManagerTypeOK, ManagerState
  <2> QED BY <1>3, <2>1, <2>2 DEF WorkInv
<1>5. CASE \/ session_interrupted \/ connection_lost \/ shutdown_observed \/ leave_loop
           \/ send_next
  <2>1. UNCHANGED <<sid, pending_job, inbox, state>>
    BY <1>5 DEF session_interrupted, connection_lost, shutdown_observed, EndSession,
       leave_loop, send_next, conn
  <2>2. outbox' \in Seq(MO!Command)
    <3>1. outbox' = <<M!Stop>> \/ (outbox # <<>> /\ outbox' = Tail(outbox))
      BY <1>5 DEF session_interrupted, connection_lost, shutdown_observed, EndSession,
         leave_loop, send_next
    <3>2. outbox # <<>> => Tail(outbox) \in Seq(MO!Command)
      BY DEF WorkInv
    <3> QED BY <3>1, <3>2, OwnStopType
  <2> QED BY <1>3, <2>1, <2>2 DEF WorkInv
<1>6. CASE pool_sends
  <2>1. PICK l \in Sendable : inbox' = Append(inbox, l)
    BY <1>6 DEF pool_sends
  <2>2. UNCHANGED <<sid, pending_job, outbox, state>>
    BY <1>6 DEF pool_sends
  <2>3. inbox' \in Seq(Sendable)
    BY <2>1 DEF WorkInv
  <2> QED BY <1>3, <2>2, <2>3 DEF WorkInv
<1>7. CASE handle_response \/ handle_ignored
  <2>1. inbox # <<>> /\ inbox' = Tail(inbox)
    BY <1>7 DEF handle_response, handle_ignored, Reads, NoOtherEffect
  <2>2. UNCHANGED <<sid, pending_job, outbox>>
    BY <1>7 DEF handle_response, handle_ignored, NoOtherEffect
  <2>3. UNCHANGED state.current_job
    BY <1>0, <1>7 DEF handle_response, handle_ignored, settle_ids, ManagerTypeOK,
       ManagerState
  <2> QED BY <1>3, <2>1, <2>2, <2>3, OwnHeadLine DEF WorkInv
<1>8. CASE handshake_stores
  <2>1. inbox # <<>> /\ inbox' = Tail(inbox) /\ UNCHANGED <<sid, outbox>>
    BY <1>8 DEF handshake_stores, NoOtherEffect
  <2>2. UNCHANGED state.current_job
    BY <1>0, <1>8 DEF handshake_stores, ManagerTypeOK, ManagerState
  <2>3. UNCHANGED pending_job \/ pending_job'.job_id \in JobsOf[sid]
    BY <1>8, <2>1, OwnHeadLine DEF handshake_stores
  <2>4. inbox' \in Seq(Sendable) /\ Sendable' = Sendable
    BY <2>1, OwnHeadLine DEF Sendable
  <2> QED BY <1>0, <2>1, <2>2, <2>3, <2>4 DEF WorkInv
<1>9. CASE subscribed \/ handle_notify \/ handle_set_difficulty
  <2>0. sid \in Sessions
    BY <1>9 DEF subscribed, handle_notify, handle_set_difficulty, Reads, InLoop, PhaseInv
  <2>1. inbox # <<>> /\ inbox' = Tail(inbox) /\ UNCHANGED sid
    BY <1>9 DEF subscribed, handle_notify, handle_set_difficulty, Reads, NoOtherEffect
  <2>2. inbox' \in Seq(Sendable) /\ Sendable' = Sendable
    BY <2>1, OwnHeadLine DEF Sendable
  <2>3. pending_job' = None \/ UNCHANGED pending_job
    BY <1>9 DEF subscribed, handle_notify, handle_set_difficulty
  <2>4. \/ UNCHANGED <<state.current_job, outbox>>
        \/ \E j \in JobsOf[sid], c \in BOOLEAN, d \in Difficulties \cup {One} :
               /\ j \in Jobs
               /\ state'.current_job = j
               /\ outbox' = JobCommands(j, c, d)
    <3>0. state.difficulty \in Difficulties \cup {One}
      BY <1>0 DEF ManagerTypeOK, ManagerState
    <3>1. CASE subscribed
      <4>1. CASE pending_job = None
        BY <1>0, <3>1, <4>1 DEF subscribed, ManagerTypeOK, ManagerState
      <4>2. CASE pending_job # None
        <5>1. /\ pending_job.job_id \in Jobs /\ pending_job.clean_jobs \in BOOLEAN
              /\ pending_job.job_id \in JobsOf[sid]
          BY <1>0, <4>2 DEF ManagerTypeOK, WorkInv
        <5>2. /\ state'.current_job = pending_job.job_id
              /\ outbox' = JobCommands(pending_job.job_id, pending_job.clean_jobs,
                                       state.difficulty)
          BY <1>0, <3>1, <4>2 DEF subscribed, ManagerTypeOK, ManagerState
        <5> QED BY <3>0, <5>1, <5>2
      <4> QED BY <4>1, <4>2
    <3>2. CASE handle_notify
      <4>1. /\ Head(inbox).job_id \in Jobs /\ Head(inbox).clean_jobs \in BOOLEAN
            /\ Head(inbox).job_id \in JobsOf[sid]
        BY <1>0, <2>1, <3>2, HeadLine, OwnHeadLine DEF handle_notify, Reads
      <4>2. /\ state'.current_job = Head(inbox).job_id
            /\ outbox' = JobCommands(Head(inbox).job_id, Head(inbox).clean_jobs,
                                     state.difficulty)
        BY <1>0, <3>2 DEF handle_notify, dispatch_job, ManagerTypeOK, ManagerState
      <4> QED BY <3>0, <4>1, <4>2
    <3>3. CASE handle_set_difficulty
      <4>1. Head(inbox).difficulty \in Difficulties
        BY <1>0, <2>1, <3>3, HeadLine DEF handle_set_difficulty, Reads
      <4>2. UNCHANGED state.current_job
        BY <1>0, <3>3 DEF handle_set_difficulty, apply_difficulty, ManagerTypeOK,
           ManagerState
      <4>3. \/ UNCHANGED outbox
            \/ /\ state.current_job # None
               /\ outbox' = JobCommands(state.current_job, FALSE, Head(inbox).difficulty)
        BY <3>3 DEF handle_set_difficulty, apply_difficulty
      <4>4. state.current_job # None
               => state.current_job \in JobsOf[sid] /\ state.current_job \in Jobs
        BY <1>0 DEF WorkInv, ManagerTypeOK, ManagerState
      <4> QED BY <4>1, <4>2, <4>3, <4>4
    <3> QED BY <1>9, <3>1, <3>2, <3>3
  <2>5. CASE UNCHANGED <<state.current_job, outbox>>
    BY <1>0, <2>1, <2>2, <2>3, <2>5 DEF WorkInv
  <2>6. CASE \E j \in JobsOf[sid], c \in BOOLEAN, d \in Difficulties \cup {One} :
                 /\ j \in Jobs
                 /\ state'.current_job = j
                 /\ outbox' = JobCommands(j, c, d)
    <3>1. PICK j \in JobsOf[sid], c \in BOOLEAN, d \in Difficulties \cup {One} :
                   /\ j \in Jobs
                   /\ state'.current_job = j
                   /\ outbox' = JobCommands(j, c, d)
      BY <2>6
    <3>2. outbox' \in Seq(MO!Command)
      BY <2>0, <3>1, OwnJobCommands
    <3> QED BY <1>0, <2>1, <2>2, <2>3, <3>1, <3>2 DEF WorkInv
  <2> QED BY <2>4, <2>5, <2>6
<1> QED BY <1>1, <1>2, <1>4, <1>5, <1>6, <1>7, <1>8, <1>9
        DEF Next, Pool, Handshake, Loop, Ending

LEMMA WorkInvariant == Spec => []WorkInv
<1>1. Init => WorkInv
  <2> SUFFICES ASSUME Init PROVE WorkInv
    OBVIOUS
  <2>1. <<>> \in Seq(OwnWork) /\ <<>> \in Seq(Sendable) /\ Len(<<>>) = 0
    OBVIOUS
  <2>2. MO!TypeOK
    BY <2>1, OwnStopType, OwnCommandKinds, SessionAssumption
       DEF Init, M!Init, MO!TypeOK, MO!Command
  <2> QED BY <2>1, <2>2, OwnStopType DEF Init, DefaultState, WorkInv
<1> QED BY <1>1, WorkStep, TypeCorrect, PTL DEF Spec

(* Whatever ids the pools give their jobs, a share goes to no connection   *)
(* whose pool does not use its job's: of the nonces of an older connection *)
(* none is submitted but those of an id that both connections use.         *)
THEOREM SharesKeepToTheirJobs == Spec => []OwnJob
<1>1. Init => OwnJob
  BY DEF Init, OwnJob
<1>2. TypeOK /\ PhaseInv /\ WorkInv /\ OwnJob /\ [Next]_vars => OwnJob'
  <2> SUFFICES ASSUME TypeOK, PhaseInv, WorkInv, OwnJob, [Next]_vars
               PROVE  OwnJob'
    OBVIOUS
  <2>1. CASE handle_nonce_found
    <3> DEFINE w == Head(result_ch)
    <3>1. /\ shares' = shares \cup {[sid |-> sid, id |-> request_id, work |-> w]}
          /\ result_ch # <<>> /\ Submittable(w) /\ mgr = "session"
      BY <2>1 DEF handle_nonce_found, NonceReported, InLoop
    <3>2. w \in OwnWork /\ sid \in Sessions
      BY <3>1 DEF WorkInv, MO!TypeOK, PhaseInv
    <3>3. state.current_job # None /\ w.job = state.current_job
      BY <3>1 DEF Submittable, decide_share_submit
    <3>4. w.job \in JobsOf[w.en1] \cap JobsOf[sid] /\ w.en1 \in Sessions
      BY <3>2, <3>3 DEF WorkInv, OwnWork, Work
    <3> HIDE DEF w
    <3> QED BY <3>1, <3>4 DEF OwnJob
  <2>2. CASE ~handle_nonce_found
    <3>1. UNCHANGED shares
      BY <2>2 DEF Next, Pool, Handshake, Loop, Ending, pool_sends, pool_closes,
         request_shutdown, connect, connected, connect_fails, handshake_stores,
         subscribed, handshake_fails, handle_notify, handle_set_difficulty,
         handle_response, handle_ignored, handle_nonce_dropped,
         handle_nonce_found_fails, session_interrupted, connection_lost,
         shutdown_observed, EndSession, send_next, session_over, leave_loop, cleanup,
         finish, MinerStep, Terminated, vars, manager_vars, counters, NoOtherEffect
    <3> QED BY <3>1 DEF OwnJob
  <2> QED BY <2>1, <2>2
<1> QED BY <1>1, <1>2, TypeCorrect, WorkInvariant, PTL DEF Spec

-----------------------------------------------------------------------------
(***************************************************************************)
(* The work in hand.  A difficulty that is close to the one before does    *)
(* not restart the job, so what the miner mines at need not be the pool's  *)
(* difficulty: it is close to it, however often that has changed.          *)
(***************************************************************************)
MinesClose ==
    mgr = "session" /\ state.current_job # None
        => difficulties_close(LastCommand.work.difficulty, state.difficulty)

LEMMA CloseToItself ==
    ASSUME NEW d \in Difficulties \cup {One}
    PROVE  difficulties_close(d, d)
<1>1. d \in Int /\ is_finite(d) /\ One \in Nat
  BY SessionAssumption, PolicyAssumption DEF is_finite
<1>2. Magnitude(d - d) = 0
  BY <1>1 DEF Magnitude
<1>3. Larger(Magnitude(d), Magnitude(d)) \in Nat
  BY <1>1 DEF Larger, Magnitude
<1> HIDE DEF Magnitude, Larger
<1>4. 0 * One = 0 /\ 0 <= One + Larger(Magnitude(d), Magnitude(d))
  BY <1>1, <1>3
<1> QED BY <1>1, <1>2, <1>4 DEF difficulties_close

(* The last of the commands of dispatch_job is the job at its difficulty. *)
LEMMA LastJobDifficulty ==
    ASSUME sid \in Sessions, NEW j \in Jobs, NEW c \in BOOLEAN,
           NEW d \in Difficulties \cup {One}
    PROVE  /\ JobCommands(j, c, d) # <<>>
           /\ Last(JobCommands(j, c, d)).work.difficulty = d
<1> DEFINE w == [job |-> j, en1 |-> sid, difficulty |-> d]
           nj == M!NewJob(w)
<1>1. nj.work.difficulty = d
  BY DEF M!NewJob
<1>2. JobCommands(j, c, d) = (IF c THEN <<M!Stop>> ELSE <<>>) \o <<nj>>
  BY DEF JobCommands
<1> HIDE DEF w, nj
<1>3. JobCommands(j, c, d) # <<>> /\ Last(JobCommands(j, c, d)) = nj
  BY <1>2 DEF Last
<1> QED BY <1>1, <1>3

(* A step into a session, or within one, dispatches a job, changes the     *)
(* difficulty without one, or leaves both.                                 *)
LEMMA DifficultyMoves ==
    ASSUME TypeOK, PhaseInv, [Next]_vars, mgr' = "session", state'.current_job # None
    PROVE  \/ \E j \in Jobs, c \in BOOLEAN :
                 /\ sid \in Sessions
                 /\ outbox' = JobCommands(j, c, state'.difficulty)
                 /\ state'.difficulty \in Difficulties \cup {One}
           \/ /\ mgr = "session" /\ state.current_job # None
              /\ LastCommand' = LastCommand
              /\ state'.difficulty \in Difficulties
              /\ difficulties_close(state.difficulty, state'.difficulty)
           \/ /\ mgr = "session" /\ state.current_job # None
              /\ LastCommand' = LastCommand
              /\ state'.difficulty = state.difficulty
<1>0. ManagerTypeOK /\ state \in ManagerState
  BY DEF TypeOK, ManagerTypeOK
<1>1. CASE send_next \/ MinerStep
  <2>1. LastCommand' = LastCommand
    BY <1>1, LastCommandTravels
  <2> QED BY <1>1, <2>1 DEF send_next, MinerStep, manager_vars
<1>2. CASE \/ Pool \/ request_shutdown \/ handle_response \/ handle_ignored
           \/ handle_nonce_dropped \/ handle_nonce_found \/ Terminated \/ UNCHANGED vars
  <2>1. LastCommand' = LastCommand
    BY <1>2 DEF Pool, pool_sends, pool_closes, request_shutdown, handle_response,
                handle_ignored, handle_nonce_dropped, handle_nonce_found, Terminated,
                vars, manager_vars, NoOtherEffect, miner_vars, M!recv_result,
                LastCommand, Last
  <2>2. mgr = "session"
    BY <1>2 DEF Pool, pool_sends, pool_closes, request_shutdown, handle_response,
                handle_ignored, handle_nonce_dropped, handle_nonce_found, Terminated,
                vars, manager_vars
  <2>3. /\ state'.current_job = state.current_job
        /\ state'.difficulty = state.difficulty
    BY <1>0, <1>2 DEF Pool, pool_sends, pool_closes, request_shutdown, handle_response,
                handle_ignored, handle_nonce_dropped, handle_nonce_found, Terminated,
                vars, manager_vars, settle_ids, RecordSubmit, ManagerState
  <2> QED BY <2>1, <2>2, <2>3
<1>3. CASE subscribed
  <2>1. sid \in Sessions
    BY <1>3 DEF subscribed, PhaseInv
  <2>2. pending_job # None
    BY <1>0, <1>3 DEF subscribed, PhaseInv, ManagerState
  <2>3. /\ pending_job.job_id \in Jobs /\ pending_job.clean_jobs \in BOOLEAN
        /\ outbox' = JobCommands(pending_job.job_id, pending_job.clean_jobs,
                                 state.difficulty)
        /\ state'.difficulty = state.difficulty
    BY <1>0, <1>3, <2>2 DEF subscribed, ManagerTypeOK, ManagerState
  <2> QED BY <1>0, <2>1, <2>3 DEF ManagerState
<1>4. CASE handle_notify
  <2>1. sid \in Sessions
    BY <1>4 DEF handle_notify, Reads, InLoop, PhaseInv
  <2>2. Head(inbox).job_id \in Jobs /\ Head(inbox).clean_jobs \in BOOLEAN
    BY <1>0, <1>4, HeadLine DEF handle_notify, Reads
  <2>3. /\ outbox' = JobCommands(Head(inbox).job_id, Head(inbox).clean_jobs,
                                 state.difficulty)
        /\ state'.difficulty = state.difficulty
    BY <1>0, <1>4 DEF handle_notify, dispatch_job, ManagerState
  <2> QED BY <1>0, <2>1, <2>2, <2>3 DEF ManagerState
<1>5. CASE handle_set_difficulty
  <2> DEFINE d == Head(inbox).difficulty
  <2>1. d \in Difficulties
    BY <1>0, <1>5, HeadLine DEF handle_set_difficulty, Reads
  <2>2. apply_difficulty(d) /\ mgr = "session" /\ sid \in Sessions
        /\ UNCHANGED <<job_ch, slot>>
    BY <1>5 DEF handle_set_difficulty, Reads, InLoop, PhaseInv, NoOtherEffect, miner_vars
  <2> HIDE DEF d
  <2>3. state'.difficulty = d /\ state'.current_job = state.current_job
    BY <1>0, <2>2 DEF apply_difficulty, ManagerState
  <2>4. state.current_job \in Jobs
    BY <1>0, <2>3 DEF ManagerState
  <2>5. CASE difficulties_close(state.difficulty, d)
    <3>1. UNCHANGED outbox
      BY <2>2, <2>5 DEF apply_difficulty
    <3>2. LastCommand' = LastCommand
      BY <2>2, <3>1 DEF LastCommand, Last
    <3> QED BY <2>1, <2>2, <2>3, <2>5, <3>2
  <2>6. CASE ~difficulties_close(state.difficulty, d)
    <3>1. outbox' = JobCommands(state.current_job, FALSE, d)
      BY <2>2, <2>3, <2>6 DEF apply_difficulty
    <3> QED BY <2>1, <2>2, <2>3, <2>4, <3>1
  <2> QED BY <2>5, <2>6
<1>6. mgr' # "session" \/ send_next \/ MinerStep \/ Pool \/ request_shutdown
        \/ handle_response \/ handle_ignored \/ handle_nonce_dropped \/ handle_nonce_found
        \/ Terminated \/ UNCHANGED vars \/ subscribed \/ handle_notify
        \/ handle_set_difficulty
  BY DEF Next, Handshake, Loop, Ending, connect, connected, connect_fails,
     handshake_stores, handshake_fails, GiveUpAttempt, handle_nonce_found_fails,
     session_interrupted, connection_lost, shutdown_observed, EndSession, session_over,
     leave_loop, cleanup, finish
<1> QED BY <1>1, <1>2, <1>3, <1>4, <1>5, <1>6

(* The work itself: what MinerFollowsManager says of the last command.     *)
LEMMA WorkInHand ==
    ASSUME MinerFollowsManager, mgr = "session", state.current_job # None
    PROVE  LastCommand.work \in Work /\ LastCommand.work.job = state.current_job
<1>1. PICK w \in Work : LastCommand = M!NewJob(w) /\ w.job = state.current_job
  BY DEF MinerFollowsManager
<1> QED BY <1>1 DEF M!NewJob

LEMMA MinesCloseStep ==
    ASSUME TolerancesAgree, TypeOK, PhaseInv, MinerFollowsManager, MinesClose, [Next]_vars
    PROVE  MinesClose'
<1> SUFFICES ASSUME mgr' = "session", state'.current_job # None
             PROVE  difficulties_close((LastCommand').work.difficulty, state'.difficulty)
  BY DEF MinesClose
<1>1. CASE \E j \in Jobs, c \in BOOLEAN :
              /\ sid \in Sessions
              /\ outbox' = JobCommands(j, c, state'.difficulty)
              /\ state'.difficulty \in Difficulties \cup {One}
  <2> DEFINE d == state'.difficulty
  <2>1. PICK j \in Jobs, c \in BOOLEAN :
           sid \in Sessions /\ outbox' = JobCommands(j, c, d) /\ d \in Difficulties \cup {One}
    BY <1>1
  <2> HIDE DEF d
  <2>2. outbox' # <<>> /\ Last(outbox').work.difficulty = d
    BY <2>1, LastJobDifficulty
  <2>3. LastCommand' = Last(outbox')
    BY <2>2 DEF LastCommand, Last
  <2>4. difficulties_close(d, d)
    BY <2>1, CloseToItself
  <2> QED BY <2>2, <2>3, <2>4 DEF d
<1>2. CASE /\ mgr = "session" /\ state.current_job # None
           /\ LastCommand' = LastCommand
           /\ state'.difficulty \in Difficulties
           /\ difficulties_close(state.difficulty, state'.difficulty)
  <2> DEFINE d == LastCommand.work.difficulty
             e == state.difficulty
             f == state'.difficulty
  <2>1. d \in Difficulties \cup {One} /\ e \in Difficulties \cup {One}
        /\ f \in Difficulties \cup {One}
    BY <1>2, WorkInHand DEF Work, TypeOK, ManagerTypeOK, ManagerState
  <2>2. difficulties_close(d, e) /\ difficulties_close(e, f)
    BY <1>2 DEF MinesClose
  <2> HIDE DEF d, e, f
  <2>3. difficulties_close(d, f)
    BY <2>1, <2>2 DEF TolerancesAgree
  <2> QED BY <1>2, <2>3 DEF d, f
<1>3. CASE /\ mgr = "session" /\ state.current_job # None
           /\ LastCommand' = LastCommand
           /\ state'.difficulty = state.difficulty
  BY <1>3 DEF MinesClose
<1> QED BY <1>1, <1>2, <1>3, DifficultyMoves

(* A nonce found for the last job sent to the miner would be submitted, if *)
(* the two tolerances agree on the difficulties the pool sets.             *)
THEOREM WorkIsWorthwhile ==
    ASSUME TolerancesAgree
    PROVE  Spec => []WorkInHandIsSubmittable
<1>1. Init => MinesClose
  BY DEF Init, MinesClose
<1>2. TypeOK /\ PhaseInv /\ MinerFollowsManager /\ MinesClose /\ [Next]_vars => MinesClose'
  BY MinesCloseStep
<1>3. TypeOK /\ MinerFollowsManager /\ MinesClose => WorkInHandIsSubmittable
  <2> SUFFICES ASSUME TypeOK, MinerFollowsManager, MinesClose, InLoop,
                      state.current_job # None
               PROVE  Submittable(LastCommand.work)
    BY DEF WorkInHandIsSubmittable
  <2> DEFINE w == LastCommand.work
  <2>1. w \in Work /\ w.job = state.current_job
    BY WorkInHand DEF InLoop
  <2>2. difficulties_close(w.difficulty, state.difficulty)
    BY DEF MinesClose, InLoop
  <2> HIDE DEF w
  <2>3. w.difficulty \in Difficulties \cup {One} /\ state.difficulty \in Difficulties \cup {One}
    BY <2>1 DEF Work, TypeOK, ManagerTypeOK, ManagerState
  <2>4. w.difficulty \in Int /\ state.difficulty \in Int
    <3>1. \A x \in Difficulties \cup {One} : x \in Int
      BY SessionAssumption, PolicyAssumption
    <3> QED BY <2>3, <3>1
  <2>5. ~(w.difficulty + 1 < state.difficulty)
    BY <2>2, <2>3, <2>4 DEF TolerancesAgree
  <2>6. is_finite(w.difficulty) /\ is_finite(state.difficulty)
    BY <2>2 DEF difficulties_close
  <2> QED BY <2>1, <2>5, <2>6 DEF Submittable, decide_share_submit, w
<1> QED BY <1>1, <1>2, <1>3, TypeCorrect, MinerFollows, PTL DEF Spec
=============================================================================
