------------------------------ MODULE Session ------------------------------
(***************************************************************************)
(* The manager task over the life of its connections: connect and          *)
(* handshake (handshake.rs), the session loop and its handlers             *)
(* (session.rs), the end of a session, the cleanup and the return of       *)
(* run_with_config (runner.rs), composed with the miner it drives (Miner). *)
(* The choice of a pool, the cooldowns and the backoff are in PoolRunner:  *)
(* here every attempt goes to "a pool".                                    *)
(*                                                                         *)
(* The manager is one async task.  A handler runs to its end before the    *)
(* next select!, and it gives way only where it sends a command to the     *)
(* miner: job_tx.send waits while the channel is full.  So a handler is    *)
(* one action that leaves in `outbox' the commands it has yet to send, and *)
(* the manager does nothing else until they are sent (send_next).  The     *)
(* state a handler changes is the task's own, so nobody can tell whether a *)
(* change happens before or after such a wait.                             *)
(*                                                                         *)
(* The pool is external: it sends what it likes, in any order, and may     *)
(* close the connection at any time.  Connections are numbered, and the    *)
(* number stands for the extranonce1 of the subscription.  The extranonce1 *)
(* a nonce was mined under is kept in `Work'; NonceFound does not carry    *)
(* it, and no handler reads it.                                            *)
(***************************************************************************)
EXTENDS Integers, Sequences, FiniteSets, SharePolicy, Protocol

CONSTANTS Threads,       \* mining threads
          JobsOf,        \* JobsOf[s]: job ids the pool uses on connection s
          BadJobs,       \* job ids whose job cannot be hashed
          Difficulties,  \* difficulties the pool sets, in units of 1e-9
          Replies,       \* the responses the pool may send
          Reconnect,     \* config.reconnect
          JobCap,        \* capacity of the command channel (32)
          ResultCap,     \* capacity of the result channel (32)
          InboxCap,      \* bound: lines the manager has not read yet
          MaxSessions,   \* bound: connections
          MaxLines,      \* bound: lines the pool sends, over all connections
          MaxRequestId   \* bound: the last request id of a connection

Sessions == 1..MaxSessions

Jobs == UNION {JobsOf[s] : s \in Sessions}

ASSUME SessionAssumption ==
    /\ Threads # {}
    /\ JobCap \in Nat \ {0}
    /\ ResultCap \in Nat \ {0}
    /\ MaxSessions \in Nat
    /\ MaxLines \in Nat
    /\ InboxCap \in Nat
    /\ MaxRequestId \in Nat
    /\ Reconnect \in BOOLEAN
    /\ DOMAIN JobsOf = Sessions
    /\ BadJobs \subseteq Jobs
    /\ Difficulties \subseteq Int
    /\ Replies \subseteq [kind : {"response"}, id : Nat,
                          result : Results, error : BOOLEAN]
    /\ None \notin Jobs
    /\ None \notin Nat

VARIABLES
    mgr,          \* where run_with_config is
    sid,          \* the number of the last connection
    state,        \* ManagerState
    request_id,   \* the next request id of the session
    pending_job,  \* a job notified before the subscription
    outbox,       \* commands the current handler has yet to send
    authorized,   \* the last Authorized event of the session
    accepted,     \* Metrics.accepted
    rejected,     \* Metrics.rejected
    shares,       \* history: the shares written to a pool
    inbox,        \* lines the pool sent and the manager has not read
    conn_open,    \* the pool has not closed the connection
    lines,        \* bound: lines sent so far
    shutdown      \* the watch channel holds true

(* The miner's variables. *)
VARIABLES job_ch, job_open, worker, epoch, slot, tasks, result_ch, result_open

miner_vars == <<job_ch, job_open, worker, epoch, slot, tasks, result_ch, result_open>>

counters == <<accepted, rejected, shares>>

conn == <<inbox, conn_open, lines>>

manager_vars == <<mgr, sid, state, request_id, pending_job, outbox, authorized,
                  counters, conn, shutdown>>

vars == <<manager_vars, miner_vars>>

Work == [job : Jobs, en1 : Sessions, difficulty : Difficulties \cup {One}]

(* The manager is the one below: Miner's bounded manager is not used. *)
M == INSTANCE Miner WITH
        BadWork <- {w \in Work : w.job \in BadJobs},
        MaxCommands <- 0

DefaultState ==
    [subscription         |-> None,
     current_job          |-> None,
     difficulty           |-> One,
     pending_submit_ids   |-> {},
     authorize_request_id |-> None]

(* Mutant: a new session keeps the ids the old one was waiting for. *)
keep_pending_ids ==
    [DefaultState EXCEPT !.pending_submit_ids = state.pending_submit_ids]

(* The handshake makes a new state; the old one goes with its session. *)
fresh_state == DefaultState

Line ==
    {SetDifficulty(d) : d \in Difficulties}
      \cup {Notify(j, c) : j \in Jobs, c \in BOOLEAN}
      \cup Replies
      \cup {Ignored}

Init ==
    /\ mgr = "top"
    /\ sid = 0
    /\ state = DefaultState
    /\ request_id = 1
    /\ pending_job = None
    /\ outbox = <<>>
    /\ authorized = None
    /\ accepted = 0
    /\ rejected = 0
    /\ shares = {}
    /\ inbox = <<>>
    /\ conn_open = FALSE
    /\ lines = 0
    /\ shutdown = FALSE
    /\ M!Init

-----------------------------------------------------------------------------
(* The environment: the pool, and whoever asks for the shutdown.           *)

(* A pool numbers its jobs as it likes, but only with its own ids. *)
Sendable ==
    {l \in Line : l.kind = "notify" => l.job_id \in JobsOf[sid]}

pool_sends ==
    /\ conn_open
    /\ mgr \in {"handshake", "session"}
    /\ Len(inbox) < InboxCap
    /\ lines < MaxLines
    /\ \E l \in Sendable : inbox' = Append(inbox, l)
    /\ lines' = lines + 1
    /\ UNCHANGED <<mgr, sid, state, request_id, pending_job, outbox, authorized,
                   counters, conn_open, shutdown, miner_vars>>

pool_closes ==
    /\ conn_open
    /\ conn_open' = FALSE
    /\ UNCHANGED <<mgr, sid, state, request_id, pending_job, outbox, authorized,
                   counters, inbox, lines, shutdown, miner_vars>>

request_shutdown ==
    /\ ~shutdown
    /\ shutdown' = TRUE
    /\ UNCHANGED <<mgr, sid, state, request_id, pending_job, outbox, authorized,
                   counters, conn, miner_vars>>

-----------------------------------------------------------------------------
(* Connecting and the handshake.  Neither looks at the shutdown.           *)

(* The client is dropped: what the pool sent is lost with it. *)
Disconnect ==
    /\ conn_open' = FALSE
    /\ inbox' = <<>>
    /\ UNCHANGED lines

(* The Err branch of the handshake: no Stop is sent here. *)
GiveUpAttempt ==
    /\ IF Reconnect
       THEN mgr' = "top" /\ outbox' = <<>>
       ELSE mgr' = "cleanup" /\ outbox' = <<M!Stop>>
    /\ state' = fresh_state
    /\ pending_job' = None

connect ==
    /\ mgr = "top"
    /\ ~shutdown
    /\ sid < MaxSessions
    /\ mgr' = "connecting"
    /\ UNCHANGED <<sid, state, request_id, pending_job, outbox, authorized,
                   counters, conn, shutdown, miner_vars>>

connected ==
    /\ mgr = "connecting"
    /\ mgr' = "handshake"
    /\ sid' = sid + 1
    /\ state' = fresh_state
    /\ request_id' = 1
    /\ pending_job' = None
    /\ authorized' = None
    /\ conn_open' = TRUE
    /\ inbox' = <<>>
    /\ UNCHANGED <<outbox, counters, lines, shutdown, miner_vars>>

connect_fails ==
    /\ mgr = "connecting"
    /\ GiveUpAttempt
    /\ UNCHANGED <<sid, request_id, authorized, counters, conn, shutdown, miner_vars>>

(* The deadline passes, the pool closes, a read or a write fails, or the    *)
(* response to the subscribe request is no subscription.                   *)
handshake_fails ==
    /\ mgr = "handshake"
    /\ GiveUpAttempt
    /\ Disconnect
    /\ UNCHANGED <<sid, request_id, authorized, counters, shutdown, miner_vars>>

(* The commands dispatch_job sends. *)
JobCommands(job, clean, difficulty) ==
    (IF clean THEN <<M!Stop>> ELSE <<>>)
      \o <<M!NewJob([job |-> job, en1 |-> sid, difficulty |-> difficulty])>>

NoOtherEffect ==
    /\ UNCHANGED <<sid, shutdown, counters, conn_open, lines, miner_vars>>
    /\ inbox' = Tail(inbox)

(* Lines read before the subscription: only the last job is kept.          *)
handshake_stores ==
    /\ mgr = "handshake"
    /\ inbox # <<>>
    /\ LET line == Head(inbox) IN
       \/ /\ line.kind = "set_difficulty"
          /\ state' = [state EXCEPT !.difficulty = line.difficulty]
          /\ UNCHANGED pending_job
       \/ /\ line.kind = "notify"
          /\ pending_job' = [job_id |-> line.job_id, clean_jobs |-> line.clean_jobs]
          /\ UNCHANGED state
       \/ /\ \/ line.kind = "ignored"
             \/ line.kind = "response" /\ line.id # 1
          /\ UNCHANGED <<state, pending_job>>
    /\ NoOtherEffect
    /\ UNCHANGED <<mgr, request_id, outbox, authorized>>

(* The subscribe response.  The authorize request goes out with id 2, then *)
(* the session starts with the job that came early, if one did.            *)
subscribed ==
    /\ mgr = "handshake"
    /\ inbox # <<>>
    /\ LET line == Head(inbox) IN
          /\ line.kind = "response"
          /\ line.id = 1
          /\ is_success(line)
          /\ parses_as_subscription(line)
    /\ mgr' = "session"
    /\ request_id' = 3
    /\ pending_job' = None
    /\ \/ /\ pending_job = None
          /\ state' = [state EXCEPT !.subscription = sid,
                                    !.authorize_request_id = 2]
          /\ UNCHANGED outbox
       \/ /\ pending_job # None
          /\ state' = [state EXCEPT !.subscription = sid,
                                    !.authorize_request_id = 2,
                                    !.current_job = pending_job.job_id]
          /\ outbox' = JobCommands(pending_job.job_id, pending_job.clean_jobs,
                                   state.difficulty)
    /\ NoOtherEffect
    /\ UNCHANGED authorized

-----------------------------------------------------------------------------
(* The session loop: one branch of the select! at a time.                  *)

InLoop == mgr = "session" /\ outbox = <<>>

Reads(kind) == InLoop /\ inbox # <<>> /\ Head(inbox).kind = kind

(* Mutant: the commands of dispatch_job in the wrong order. *)
StopAfterJob(job, clean) ==
    /\ outbox' = <<M!NewJob([job |-> job, en1 |-> sid,
                             difficulty |-> state.difficulty])>>
                   \o (IF clean THEN <<M!Stop>> ELSE <<>>)
    /\ state' = [state EXCEPT !.current_job = job]

(* `subscription' is Some in the loop, so the job is never ignored. *)
dispatch_job(job, clean) ==
    /\ outbox' = JobCommands(job, clean, state.difficulty)
    /\ state' = [state EXCEPT !.current_job = job]

handle_notify ==
    /\ Reads("notify")
    /\ dispatch_job(Head(inbox).job_id, Head(inbox).clean_jobs)
    /\ NoOtherEffect
    /\ UNCHANGED <<mgr, request_id, pending_job, authorized>>

(* Mutant: the new difficulty is stored, the running job is not restarted. *)
StoreDifficulty(d) ==
    /\ state' = [state EXCEPT !.difficulty = d]
    /\ UNCHANGED outbox

(* The job restarts when the difficulty changes by more than float noise.  *)
apply_difficulty(d) ==
    /\ state' = [state EXCEPT !.difficulty = d]
    /\ IF \/ difficulties_close(state.difficulty, d)
          \/ state.current_job = None
       THEN UNCHANGED outbox
       ELSE outbox' = JobCommands(state.current_job, FALSE, d)

handle_set_difficulty ==
    /\ Reads("set_difficulty")
    /\ apply_difficulty(Head(inbox).difficulty)
    /\ NoOtherEffect
    /\ UNCHANGED <<mgr, request_id, pending_job, authorized>>

(* Mutant: every authorize response counts. *)
EveryAuthorizeResponse(resp) ==
    /\ authorized' = IF resp.id = 2 THEN is_authorized(resp) ELSE authorized
    /\ state' = [state EXCEPT !.pending_submit_ids = @ \ {resp.id}]

(* Only the first authorize response is authoritative; a response to a     *)
(* submit is no longer pending.                                            *)
settle_ids(resp) ==
    LET is_auth_response == /\ state.authorize_request_id # None
                            /\ resp.id = state.authorize_request_id
    IN  /\ authorized' = IF is_auth_response THEN is_authorized(resp) ELSE authorized
        /\ state' = [state EXCEPT
                        !.authorize_request_id = IF is_auth_response THEN None ELSE @,
                        !.pending_submit_ids = @ \ {resp.id}]

(* Mutant: any response with a submit's id counts, pending or not. *)
CountAnyVerdict(resp) ==
    IF resp.id < 3
    THEN UNCHANGED <<accepted, rejected>>
    ELSE IF share_accepted(resp)
         THEN accepted' = accepted + 1 /\ UNCHANGED rejected
         ELSE rejected' = rejected + 1 /\ UNCHANGED accepted

count_verdict(resp) ==
    IF resp.id \notin state.pending_submit_ids
    THEN UNCHANGED <<accepted, rejected>>
    ELSE IF share_accepted(resp)
         THEN accepted' = accepted + 1 /\ UNCHANGED rejected
         ELSE rejected' = rejected + 1 /\ UNCHANGED accepted

handle_response ==
    /\ Reads("response")
    /\ settle_ids(Head(inbox))
    /\ count_verdict(Head(inbox))
    /\ inbox' = Tail(inbox)
    /\ UNCHANGED <<mgr, sid, request_id, pending_job, outbox, shares, conn_open,
                   lines, shutdown, miner_vars>>

(* A line that does not parse, or one the client does not react to. *)
handle_ignored ==
    /\ Reads("ignored")
    /\ NoOtherEffect
    /\ UNCHANGED <<mgr, state, request_id, pending_job, outbox, authorized>>

Submittable(w) ==
    decide_share_submit(w.job, w.difficulty, state.current_job, state.difficulty)
        = "submit"

NonceReported == InLoop /\ result_ch # <<>>

handle_nonce_dropped ==
    /\ NonceReported
    /\ ~Submittable(Head(result_ch))
    /\ M!recv_result
    /\ UNCHANGED manager_vars

(* Mutant: the id is recorded after it was incremented. *)
RecordNextId ==
    /\ state' = [state EXCEPT !.pending_submit_ids = @ \cup {request_id + 1}]
    /\ request_id' = request_id + 1

RecordSubmit ==
    /\ state' = [state EXCEPT !.pending_submit_ids = @ \cup {request_id}]
    /\ request_id' = request_id + 1

(* The share is written.  The write may succeed after the pool closed. *)
handle_nonce_found ==
    /\ NonceReported
    /\ request_id <= MaxRequestId
    /\ Submittable(Head(result_ch))
    /\ RecordSubmit
    /\ shares' = shares \cup {[sid |-> sid, id |-> request_id,
                               work |-> Head(result_ch)]}
    /\ M!recv_result
    /\ UNCHANGED <<mgr, sid, pending_job, outbox, authorized, accepted, rejected,
                   conn, shutdown>>

(* The write fails and `?' makes run_with_config return: its channel ends  *)
(* are dropped, and so are the client and the session's state.             *)
handle_nonce_found_fails ==
    /\ NonceReported
    /\ Submittable(Head(result_ch))
    /\ ~conn_open
    /\ mgr' = "failed"
    /\ state' = fresh_state
    /\ Disconnect
    /\ M!drop_channels
    /\ UNCHANGED <<sid, request_id, pending_job, outbox, authorized, counters,
                   shutdown>>

Loop ==
    \/ handle_notify
    \/ handle_set_difficulty
    \/ handle_response
    \/ handle_ignored
    \/ handle_nonce_dropped
    \/ handle_nonce_found
    \/ handle_nonce_found_fails

-----------------------------------------------------------------------------
(* The end of a session and of the program.                                *)

EndSession ==
    /\ InLoop
    /\ mgr' = "ending"
    /\ outbox' = <<M!Stop>>
    /\ UNCHANGED <<sid, state, request_id, pending_job, authorized, counters,
                   conn, shutdown, miner_vars>>

(* The idle timer fires, or the user switches or disables the pool. *)
session_interrupted == EndSession

(* The pool closed, and the reads reach the end or an error (which may     *)
(* discard lines that were not read).                                      *)
connection_lost == ~conn_open /\ EndSession

shutdown_observed == shutdown /\ EndSession

(* After the Stop: give up, or wait and try again. *)
session_over ==
    /\ mgr = "ending"
    /\ outbox = <<>>
    /\ IF Reconnect /\ ~shutdown
       THEN mgr' = "top" /\ UNCHANGED outbox
       ELSE mgr' = "cleanup" /\ outbox' = <<M!Stop>>
    /\ state' = fresh_state
    /\ Disconnect
    /\ UNCHANGED <<sid, request_id, pending_job, authorized, counters, shutdown,
                   miner_vars>>

(* The shutdown is seen between two sessions. *)
leave_loop ==
    /\ mgr = "top"
    /\ shutdown
    /\ mgr' = "cleanup"
    /\ outbox' = <<M!Stop>>
    /\ UNCHANGED <<sid, state, request_id, pending_job, authorized, counters, conn,
                   shutdown, miner_vars>>

(* Mutant: all commands are sent at once, room or not. *)
SendAll ==
    /\ outbox # <<>>
    /\ job_ch' = job_ch \o outbox
    /\ outbox' = <<>>
    /\ UNCHANGED <<mgr, sid, state, request_id, pending_job, authorized, counters,
                   conn, shutdown, job_open, worker, epoch, slot, tasks, result_ch,
                   result_open>>

(* Mutant: the command is thrown away when the channel is full. *)
TrySendNext ==
    /\ outbox # <<>>
    /\ outbox' = Tail(outbox)
    /\ IF Len(job_ch) < JobCap
       THEN M!send_command(Head(outbox))
       ELSE UNCHANGED miner_vars
    /\ UNCHANGED <<mgr, sid, state, request_id, pending_job, authorized, counters,
                   conn, shutdown>>

(* job_tx.send(..).await returns. *)
send_next ==
    /\ outbox # <<>>
    /\ M!send_command(Head(outbox))
    /\ outbox' = Tail(outbox)
    /\ UNCHANGED <<mgr, sid, state, request_id, pending_job, authorized, counters,
                   conn, shutdown>>

(* Mutant: the worker is joined while the command channel is still open. *)
JoinWithOpenChannel ==
    /\ mgr = "cleanup"
    /\ outbox = <<>>
    /\ mgr' = "joining"
    /\ UNCHANGED <<sid, state, request_id, pending_job, outbox, authorized, counters,
                   conn, shutdown, miner_vars>>

cleanup ==
    /\ mgr = "cleanup"
    /\ outbox = <<>>
    /\ mgr' = "joining"
    /\ M!drop_job_tx
    /\ UNCHANGED <<sid, state, request_id, pending_job, outbox, authorized, counters,
                   conn, shutdown>>

(* miner_handle.await returns; then run_with_config does. *)
finish ==
    /\ mgr = "joining"
    /\ worker = "exited"
    /\ mgr' = "finished"
    /\ M!drop_channels
    /\ UNCHANGED <<sid, state, request_id, pending_job, outbox, authorized, counters,
                   conn, shutdown>>

-----------------------------------------------------------------------------
Pool == pool_sends \/ pool_closes

Handshake == connected \/ connect_fails \/ handshake_stores \/ subscribed \/ handshake_fails

Ending == session_over \/ leave_loop \/ cleanup \/ finish

MinerStep ==
    /\ M!Worker \/ M!Mining
    /\ UNCHANGED manager_vars

(* Nothing is left to do: the manager returned and the miner is quiet. *)
Terminated ==
    /\ mgr \in {"finished", "failed"}
    /\ worker = "exited"
    /\ tasks = {}
    /\ UNCHANGED vars

Next ==
    \/ Pool
    \/ request_shutdown
    \/ connect
    \/ Handshake
    \/ Loop
    \/ session_interrupted
    \/ connection_lost
    \/ shutdown_observed
    \/ send_next
    \/ Ending
    \/ MinerStep
    \/ Terminated

Spec == Init /\ [][Next]_vars

(***************************************************************************)
(* Fairness.  The runtime polls the manager when it is ready, so a send    *)
(* that has room, the end of a session and the cleanup do not wait for     *)
(* ever; a connection attempt ends (the operating system gives up on a TCP *)
(* connect) and the handshake has a deadline; select! picks among ready    *)
(* branches at random, so a shutdown that stays visible is picked although *)
(* other branches are ready too.  The pool, the user and the idle timer    *)
(* get no fairness.                                                        *)
(***************************************************************************)
ManagerFairness ==
    /\ WF_vars(send_next)
    /\ WF_vars(Ending)
    /\ WF_vars(connected \/ connect_fails)
    /\ WF_vars(handshake_fails)
    /\ SF_vars(shutdown_observed)

FairSpec == Spec /\ ManagerFairness /\ M!WorkerFairness /\ M!MiningFairness

-----------------------------------------------------------------------------
Share == [sid : Sessions, id : Nat, work : Work]

ManagerState ==
    [subscription         : Sessions \cup {None},
     current_job          : Jobs \cup {None},
     difficulty           : Difficulties \cup {One},
     pending_submit_ids   : SUBSET (3..(request_id - 1)),
     authorize_request_id : {None, 2}]

ManagerTypeOK ==
    /\ mgr \in {"top", "connecting", "handshake", "session", "ending", "cleanup",
                "joining", "finished", "failed"}
    /\ sid \in 0..MaxSessions
    /\ state \in ManagerState
    /\ request_id \in Nat
    /\ pending_job \in [job_id : Jobs, clean_jobs : BOOLEAN] \cup {None}
    /\ outbox \in Seq(M!Command)
    /\ authorized \in BOOLEAN \cup {None}
    /\ accepted \in Nat
    /\ rejected \in Nat
    /\ shares \subseteq Share
    /\ inbox \in Seq(Line)
    /\ conn_open \in BOOLEAN
    /\ lines \in Nat
    /\ shutdown \in BOOLEAN

TypeOK == ManagerTypeOK /\ M!TypeOK

(* The last command the manager has decided on, wherever it is by now. *)
Last(s) == s[Len(s)]

LastCommand ==
    IF outbox # <<>> THEN Last(outbox)
    ELSE IF job_ch # <<>> THEN Last(job_ch)
    ELSE slot

(***************************************************************************)
(* The miner is never left on something the manager no longer wants: with  *)
(* everything in flight executed, it mines the session's current job under *)
(* the session's extranonce1, and nothing when no session runs (runner.rs: *)
(* "Stop miner work for the old session.").  The difficulty it mines at is *)
(* in WorkInHandIsSubmittable.  The return on a failed write is the        *)
(* exception: it leaves the miner on the last job.                         *)
(***************************************************************************)
MinerFollowsManager ==
    IF mgr = "session" /\ state.current_job # None
    THEN \E w \in Work : /\ LastCommand = M!NewJob(w)
                         /\ w.job = state.current_job
                         /\ w.en1 = sid
    ELSE mgr # "failed" => LastCommand = M!Stop

(***************************************************************************)
(* A share goes to no connection whose pool does not use its job id.       *)
(* Nonces may be reported after their connection ended (miner_rx is not    *)
(* drained between sessions), and the job id is all that tells them from   *)
(* those of the next one.  It does not tell them apart when the pool uses  *)
(* an id again: then shares go to the new connection that were mined under *)
(* the extranonce1 of the old one.                                         *)
(***************************************************************************)
OwnJob ==
    \A s \in shares : s.work.job \in JobsOf[s.sid] \cap JobsOf[s.work.en1]

(***************************************************************************)
(* The work the miner is sent to is worth doing: a nonce found for the     *)
(* last job sent would be submitted, not dropped (ROADMAP.md: "Apply       *)
(* mining.set_difficulty to the in-flight job immediately").  The two      *)
(* difficulty tolerances must agree for this, TolerancesAgree: above 1.0   *)
(* difficulties_close is the wider one, and a pool that raises its         *)
(* difficulty by less than that has its shares dropped until the next job. *)
(***************************************************************************)
WorkInHandIsSubmittable ==
    InLoop /\ state.current_job # None => Submittable(LastCommand.work)

(* Of the difficulties in use, those that are close are of one kind, and   *)
(* none is more than the tolerance of decide_share_submit above another.   *)
TolerancesAgree ==
    \A d, e, f \in Difficulties \cup {One} :
        difficulties_close(d, e) =>
            /\ e <= d + 1
            /\ difficulties_close(e, f) => difficulties_close(d, f)

(***************************************************************************)
(* Every pending id is that of a share written on this very connection: no *)
(* answer on a new connection can settle a share of an older one.          *)
(***************************************************************************)
PendingIsOfThisSession ==
    \A id \in state.pending_submit_ids :
        \E s \in shares : s.sid = sid /\ s.id = id

(* Shares are counted as ShareLedger says. *)
Ledger == INSTANCE ShareLedger WITH
              submitted <- Cardinality(shares),
              outstanding <- Cardinality(state.pending_submit_ids)

SharesAreCountedOnce == Ledger!Spec

(* The manager touches the miner only through the two channels: it is one  *)
(* of the managers Miner allows, so what Miner promises holds here too.    *)
MinerIsDriven == M!OpenSpec

(* "Only treat the first authorize response as authoritative." *)
FirstAuthorizeWins ==
    [][authorized # None /\ sid' = sid => authorized' = authorized]_vars

(***************************************************************************)
(* A shutdown ends the manager, from wherever it is and however full the   *)
(* channels are: the miner never waits for the manager while the manager   *)
(* waits for the miner.                                                    *)
(***************************************************************************)
ShutdownCompletes == shutdown ~> mgr \in {"finished", "failed"}

(* After a graceful end every mining thread ends, parked senders included. *)
FinishedManagerStopsMiner == mgr = "finished" ~> tasks = {}

(* A failed write to the pool is a lost connection: the manager goes on    *)
(* (config.rs: "Automatically reconnect when the pool disconnects.").      *)
SurvivesDisconnect == Reconnect => mgr # "failed"

(***************************************************************************)
(* The session's current job reaches the miner, unless another job or the  *)
(* end of the session overtakes it.                                        *)
(***************************************************************************)
CurrentJobReachesMiner ==
    \A j \in Jobs :
        mgr = "session" /\ state.current_job = j
            ~> \/ mgr # "session"
               \/ state.current_job # j
               \/ slot.cmd = "NewJob" /\ slot.work.job = j /\ slot.work.en1 = sid
=============================================================================
