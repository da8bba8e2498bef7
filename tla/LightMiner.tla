----------------------------- MODULE LightMiner -----------------------------
(***************************************************************************)
(* The program in TUI mode: run_with_tui (main.rs) starts the manager, the *)
(* interface (run_ui) and the state updater (run_state_updater), and joins *)
(* them.  The manager sends events to the updater, which applies them to   *)
(* the AppState the interface draws; the interface sends commands to the   *)
(* manager, which reads them only in a session; a watch channel holds the  *)
(* shutdown.                                                               *)
(*                                                                         *)
(* The manager is reduced to where it is, what it knows and what it emits: *)
(* PoolRunner has its choice of pools and Session its handlers.  Every     *)
(* emit waits while the event channel is full, so an action leaves in      *)
(* `emits' the events it has yet to send and the manager does nothing else *)
(* until they are sent.                                                    *)
(*                                                                         *)
(* The mining threads are reduced to whether a job keeps them at work:     *)
(* that the worker does in the end what the manager sent last, and that    *)
(* threads told to stop return, is shown in Miner and Session.  They are   *)
(* blocking tasks of the runtime, which main drops on its return: that     *)
(* drop waits for them without limit.                                      *)
(***************************************************************************)
EXTENDS Integers, Sequences, SequencesExt

CONSTANTS Pools,         \* the pools of the configuration
          Jobs,          \* job ids
          Difficulties,  \* difficulties the pools set
          Keys,          \* keys the user presses
          EventCap,      \* capacity of the event channel (256)
          CommandCap,    \* capacity of the command channel (32)
          None           \* Option::None, and what is not known yet

CommandKeys == {"p", "P", "d"}

ASSUME LightMinerAssumption ==
    /\ Keys \subseteq CommandKeys \cup {"q", "c"}
    /\ EventCap \in Nat \ {0}
    /\ CommandCap \in Nat \ {0}
    /\ None \notin Pools \cup Jobs \cup Difficulties

Tasks == {"ui", "manager", "updater"}

VARIABLES
    reconnect,  \* config.reconnect; never written
    mgr,        \* where run_with_config is
    now,        \* what the manager has: pool, connection, authorization,
                \* difficulty and job
    emits,      \* events the manager has yet to emit
    mining,     \* a job keeps threads at work that nothing sent will stop
    events,     \* the event channel
    app,        \* the AppState, as far as it shows `now'
    updater,    \* run_state_updater: "running", "done"
    ui,         \* run_ui: "poll", "send", "check", "done"
    typed,      \* the key the terminal holds for the interface
    chosen,     \* the command run_ui is sending
    commands,   \* the command channel
    shutdown,   \* the watch channel holds true
    main,       \* where run_with_tui is, and whether the process is gone
    finished,   \* its flags ui_finished and manager_finished
    joined      \* history: how often each JoinHandle gave its result

manager == <<mgr, now, emits, mining>>

interface == <<ui, typed, chosen>>

program == <<main, finished, joined>>

vars == <<reconnect, manager, events, app, updater, interface, commands,
          shutdown, program>>

-----------------------------------------------------------------------------
(* Events. *)

(* A Log, PoolsStatus, ProxyInfo or share event: nothing of `now'. *)
Other == [kind |-> "other"]

ActivePool(p) == [kind |-> "pool", value |-> p]
Connected(b) == [kind |-> "connected", value |-> b]
Authorized(b) == [kind |-> "authorized", value |-> b]
Difficulty(d) == [kind |-> "difficulty", value |-> d]
CurrentJob(j) == [kind |-> "job", value |-> j]

Nothing == [pool |-> None, connected |-> FALSE, authorized |-> None,
            difficulty |-> None, job |-> None]

View == [pool : Pools \cup {None}, connected : BOOLEAN,
         authorized : BOOLEAN \cup {None}, difficulty : Difficulties \cup {None},
         job : Jobs \cup {None}]

ManagerEvent ==
    {Other} \cup {ActivePool(p) : p \in Pools}
    \cup {Connected(b) : b \in BOOLEAN} \cup {Authorized(b) : b \in BOOLEAN}
    \cup {Difficulty(d) : d \in Difficulties}
    \cup {CurrentJob(j) : j \in Jobs \cup {None}}

apply_manager_event(state, event) ==
    CASE event.kind = "other" -> state
      [] event = Connected(FALSE) ->
             [state EXCEPT !.connected = FALSE, !.authorized = None]
      [] OTHER -> [state EXCEPT ![event.kind] = event.value]

-----------------------------------------------------------------------------
Init ==
    /\ reconnect \in BOOLEAN
    /\ mgr = "start"
    /\ now = Nothing
    /\ emits = <<>>
    /\ mining = FALSE
    /\ events = <<>>
    /\ app = Nothing
    /\ updater = "running"
    /\ ui = "poll"
    /\ typed = None
    /\ chosen = None
    /\ commands = <<>>
    /\ shutdown = FALSE
    /\ main = "select"
    /\ finished = {}
    /\ joined = [t \in Tasks |-> 0]

(* SIGINT from outside: in raw mode the terminal sends none for Ctrl-C. *)
interrupt ==
    /\ ~shutdown
    /\ main \notin {"done", "exited"}
    /\ shutdown' = TRUE
    /\ UNCHANGED <<reconnect, manager, events, app, updater, interface, commands,
                   program>>

-----------------------------------------------------------------------------
(* The manager. *)

(* The send waits for room; it fails, ignored, once event_rx is dropped. *)
emit ==
    /\ emits # <<>>
    /\ \/ /\ updater = "running"
          /\ Len(events) < EventCap
          /\ events' = Append(events, Head(emits))
       \/ /\ updater = "done"
          /\ UNCHANGED events
    /\ emits' = Tail(emits)
    /\ UNCHANGED <<reconnect, mgr, now, mining, app, updater, interface, commands,
                   shutdown, program>>

(* The manager is at a place, with nothing left to emit. *)
At(place) == mgr = place /\ emits = <<>>

Rest == UNCHANGED <<reconnect, events, app, updater, interface, shutdown, program>>

(* No pool, or none with a supported algorithm, ends it; a pool that is    *)
(* disabled for its algorithm is logged.                                   *)
start ==
    /\ At("start")
    /\ \/ mgr' = "leaving" /\ emits' \in {<<>>, <<Other>>}
       \/ mgr' = "top" /\ emits' \in {<<Other>>, <<Other, Other>>}
    /\ UNCHANGED <<now, mining, commands>> /\ Rest

(* Mutant: the interface is not told that the old connection is gone. *)
attempt_unannounced ==
    /\ At("top")
    /\ ~shutdown
    /\ \E p \in Pools :
          /\ now' = [Nothing EXCEPT !.pool = p]
          /\ emits' = <<ActivePool(p), Other, Other>>
    /\ mgr' = "connecting"
    /\ UNCHANGED <<mining, commands>> /\ Rest

(* Mutant: the loop goes on without a look at the shutdown. *)
attempt_regardless ==
    /\ At("top")
    /\ \E p \in Pools :
          /\ now' = [Nothing EXCEPT !.pool = p]
          /\ emits' = <<ActivePool(p), Other, Connected(FALSE), Other>>
    /\ mgr' = "connecting"
    /\ UNCHANGED <<mining, commands>> /\ Rest

attempt ==
    /\ At("top")
    /\ ~shutdown
    /\ \E p \in Pools :
          /\ now' = [Nothing EXCEPT !.pool = p]
          /\ emits' = <<ActivePool(p), Other, Connected(FALSE), Other>>
    /\ mgr' = "connecting"
    /\ UNCHANGED <<mining, commands>> /\ Rest

all_cooling ==
    /\ At("top")
    /\ ~shutdown
    /\ mgr' = "cooling"
    /\ emits' = <<Other>>
    /\ UNCHANGED <<now, mining, commands>> /\ Rest

leave_loop ==
    /\ At("top")
    /\ shutdown
    /\ mgr' = "leaving"
    /\ emits' = <<Other>>
    /\ UNCHANGED <<now, mining, commands>> /\ Rest

connect ==
    /\ At("connecting")
    /\ mgr' = "handshake"
    /\ now' = [now EXCEPT !.connected = TRUE]
    /\ emits' \in {<<Other, Connected(TRUE), Other>>,
                   <<Other, Other, Connected(TRUE), Other>>}
    /\ UNCHANGED <<mining, commands>> /\ Rest

(* An attempt or a handshake that fails, subscribed or not, at a threshold *)
(* or not; the backoff, if any, is announced.                              *)
attempt_fails ==
    /\ At("connecting") \/ At("handshake")
    /\ now' = [Nothing EXCEPT !.pool = now.pool, !.difficulty = now.difficulty]
    /\ \E told \in {<<>>, <<Other>>, <<Other, Other>>} :
          emits' = told
                     \o <<Other, Connected(FALSE), Other, CurrentJob(None), Other>>
                     \o IF reconnect THEN <<Other>> ELSE <<>>
    /\ mgr' = IF reconnect THEN "waiting" ELSE "leaving"
    /\ UNCHANGED <<mining, commands>> /\ Rest

(* The pool sets a difficulty, in the handshake or in the session, where a *)
(* change is logged.                                                       *)
apply_difficulty ==
    /\ At("handshake") \/ At("session")
    /\ \E d \in Difficulties :
          /\ now' = [now EXCEPT !.difficulty = d]
          /\ \/ emits' = <<Difficulty(d)>>
             \/ mgr = "session" /\ emits' = <<Difficulty(d), Other>>
    /\ UNCHANGED <<mgr, mining, commands>> /\ Rest

(* Stop: the threads at work come to an end. *)
StopMiner == mining' = FALSE

(* NewJob: so do they, and others start unless the job cannot be hashed. *)
StartMiner == mining' \in BOOLEAN

(* A clean job is logged twice. *)
dispatch(j) == {<<CurrentJob(j), Other>>, <<CurrentJob(j), Other, Other>>}

(* Subscribed, and the authorize request is written; a job that came       *)
(* before is dispatched now.                                               *)
handshake_ends ==
    /\ At("handshake")
    /\ mgr' = "session"
    /\ \/ /\ emits' = <<Other, Other>>
          /\ UNCHANGED <<now, mining>>
       \/ /\ StartMiner
          /\ \E j \in Jobs :
                /\ emits' \in {<<Other, Other>> \o told : told \in dispatch(j)}
                /\ now' = [now EXCEPT !.job = j]
    /\ UNCHANGED commands /\ Rest

job ==
    /\ At("session")
    /\ \E j \in Jobs :
          /\ emits' \in dispatch(j)
          /\ now' = [now EXCEPT !.job = j]
    /\ StartMiner
    /\ UNCHANGED <<mgr, commands>> /\ Rest

(* The first authorize response; an error in it is logged. *)
authorize ==
    /\ At("session")
    /\ now.authorized = None
    /\ \E ok \in BOOLEAN :
          /\ now' = [now EXCEPT !.authorized = ok]
          /\ emits' \in {<<Other, Authorized(ok)>>, <<Other, Authorized(ok), Other>>}
    /\ UNCHANGED <<mgr, mining, commands>> /\ Rest

(* Any other line of the pool, a share that is dropped or submitted. *)
other_messages ==
    /\ At("session")
    /\ emits' \in {<<Other>>, <<Other, Other>>}
    /\ UNCHANGED <<mgr, now, mining, commands>> /\ Rest

(* A share that cannot be written: `?' returns past the Stop and the join. *)
failed_write ==
    /\ At("session")
    /\ mgr' = "failing"
    /\ emits' = <<Other>>
    /\ UNCHANGED <<now, mining, commands>> /\ Rest

(* The end of a session: the miner is stopped and no job is current. *)
EndSession(told) ==
    /\ mgr' = "ended"
    /\ emits' = told \o <<CurrentJob(None)>>
    /\ StopMiner

(* Mutant: only the toggle is received. *)
take_toggle ==
    /\ At("session")
    /\ commands # <<>>
    /\ Head(commands) = "d"
    /\ commands' = Tail(commands)
    /\ \/ EndSession(<<Other, Other>>) /\ now' = [now EXCEPT !.job = None]
       \/ emits' = <<Other, Other>> /\ UNCHANGED <<mgr, now, mining>>
    /\ Rest

(* A switch or a toggle ends the session, or has nothing to do so for: no  *)
(* active or no other pool, a pool that is enabled again.                  *)
take_command ==
    /\ At("session")
    /\ commands # <<>>
    /\ commands' = Tail(commands)
    /\ LET told == IF Head(commands) = "d" THEN <<Other, Other>> ELSE <<Other>> IN
       \/ /\ EndSession(told)
          /\ now' = [now EXCEPT !.job = None]
       \/ /\ emits' \in {<<>>, told}
          /\ UNCHANGED <<mgr, now, mining>>
    /\ Rest

shutdown_observed ==
    /\ At("session")
    /\ shutdown
    /\ EndSession(<<Other>>)
    /\ now' = [now EXCEPT !.job = None]
    /\ UNCHANGED commands /\ Rest

(* The pool closes, an error, the idle timer. *)
session_lost ==
    /\ At("session")
    /\ EndSession(<<Connected(FALSE), Other>>)
    /\ now' = [now EXCEPT !.connected = FALSE, !.authorized = None, !.job = None]
    /\ UNCHANGED commands /\ Rest

after_session ==
    /\ At("ended")
    /\ IF ~reconnect \/ shutdown
       THEN mgr' = "leaving" /\ emits' = <<>>
       ELSE mgr' = "waiting" /\ emits' = <<Other>>
    /\ UNCHANGED <<now, mining, commands>> /\ Rest

(* The next turn of the loop drops the old client, without an event. *)
wake ==
    /\ At("waiting") \/ At("cooling")
    /\ mgr' = "top"
    /\ now' = [now EXCEPT !.connected = FALSE, !.authorized = None]
    /\ UNCHANGED <<emits, mining, commands>> /\ Rest

(* The cleanup: a Stop, and the worker is joined. *)
leave ==
    /\ At("leaving")
    /\ mgr' = "done"
    /\ StopMiner
    /\ commands' = <<>>
    /\ UNCHANGED <<now, emits>> /\ Rest

fail ==
    /\ At("failing")
    /\ mgr' = "failed"
    /\ commands' = <<>>
    /\ UNCHANGED <<now, emits, mining>> /\ Rest

(* run_with_config has returned: event_tx and command_rx are dropped. *)
Returned == mgr \in {"done", "failed"}

-----------------------------------------------------------------------------
(* run_state_updater. *)

receive_event ==
    /\ updater = "running"
    /\ events # <<>>
    /\ app' = apply_manager_event(app, Head(events))
    /\ events' = Tail(events)
    /\ UNCHANGED <<reconnect, manager, updater, interface, commands, shutdown,
                   program>>

(* A shutdown, or the channel is closed and empty.  event_rx is dropped. *)
updater_stops ==
    /\ updater = "running"
    /\ shutdown \/ (Returned /\ events = <<>>)
    /\ updater' = "done"
    /\ events' = <<>>
    /\ UNCHANGED <<reconnect, manager, app, interface, commands, shutdown, program>>

-----------------------------------------------------------------------------
(* run_ui. *)

press ==
    /\ ui # "done"
    /\ typed = None
    /\ typed' \in Keys
    /\ UNCHANGED <<reconnect, manager, events, app, updater, ui, chosen, commands,
                   shutdown, program>>

(* Draw, then wait 100 ms for a key. *)
no_key ==
    /\ ui = "poll"
    /\ typed = None
    /\ ui' = "check"
    /\ UNCHANGED <<reconnect, manager, events, app, updater, typed, chosen,
                   commands, shutdown, program>>

(* 'c' clears the logs.  Ctrl-C is the key 'c' with a modifier, which is   *)
(* not looked at.                                                          *)
key ==
    /\ ui = "poll"
    /\ typed # None
    /\ typed' = None
    /\ \/ typed = "q" /\ ui' = "done" /\ UNCHANGED chosen
       \/ typed = "c" /\ ui' = "check" /\ UNCHANGED chosen
       \/ typed \in CommandKeys /\ ui' = "send" /\ chosen' = typed
    /\ UNCHANGED <<reconnect, manager, events, app, updater, commands, shutdown,
                   program>>

(* The terminal cannot be drawn to or read.  What it holds when run_ui     *)
(* ends is not read any more.                                              *)
ui_fails ==
    /\ ui = "poll"
    /\ ui' = "done"
    /\ typed' = None
    /\ UNCHANGED <<reconnect, manager, events, app, updater, chosen, commands,
                   shutdown, program>>

(* The send waits for room; it fails, ignored, once command_rx is dropped. *)
send_command ==
    /\ ui = "send"
    /\ \/ Returned /\ UNCHANGED commands
       \/ /\ ~Returned
          /\ Len(commands) < CommandCap
          /\ commands' = Append(commands, chosen)
    /\ ui' = "check"
    /\ chosen' = None
    /\ UNCHANGED <<reconnect, manager, events, app, updater, typed, shutdown, program>>

check_shutdown ==
    /\ ui = "check"
    /\ \/ ~shutdown /\ ui' = "poll" /\ UNCHANGED typed
       \/ shutdown /\ ui' = "done" /\ typed' = None
    /\ UNCHANGED <<reconnect, manager, events, app, updater, chosen, commands,
                   shutdown, program>>

-----------------------------------------------------------------------------
(* run_with_tui. *)

Done(t) ==
    \/ t = "ui" /\ ui = "done"
    \/ t = "manager" /\ Returned
    \/ t = "updater" /\ updater = "done"

Join(t) ==
    /\ Done(t)
    /\ joined' = [joined EXCEPT ![t] = @ + 1]

(* Mutant: the select does not say which task it saw. *)
select_forgets ==
    /\ main = "select"
    /\ \E t \in {"ui", "manager"} : Join(t)
    /\ shutdown' = TRUE
    /\ main' = "join_manager"
    /\ UNCHANGED <<reconnect, manager, events, app, updater, interface, commands,
                   finished>>

(* Mutant: the manager is not told that the interface has ended. *)
select_silently ==
    /\ main = "select"
    /\ \E t \in {"ui", "manager"} : Join(t) /\ finished' = {t}
    /\ main' = "join_manager"
    /\ UNCHANGED <<reconnect, manager, events, app, updater, interface, commands,
                   shutdown>>

(* The first of the two to end ends the others. *)
select ==
    /\ main = "select"
    /\ \E t \in {"ui", "manager"} : Join(t) /\ finished' = {t}
    /\ shutdown' = TRUE
    /\ main' = "join_manager"
    /\ UNCHANGED <<reconnect, manager, events, app, updater, interface, commands>>

Await(t, here, next) ==
    /\ main = here
    /\ IF t \in finished THEN UNCHANGED joined ELSE Join(t)
    /\ main' = next
    /\ UNCHANGED <<reconnect, manager, events, app, updater, interface, commands,
                   shutdown, finished>>

join_tasks ==
    \/ Await("manager", "join_manager", "join_state")
    \/ Await("updater", "join_state", "join_ui")
    \/ Await("ui", "join_ui", "done")

(* main drops the runtime, which waits for the mining threads. *)
exit ==
    /\ main = "done"
    /\ ~mining
    /\ main' = "exited"
    /\ UNCHANGED <<reconnect, manager, events, app, updater, interface, commands,
                   shutdown, finished, joined>>

-----------------------------------------------------------------------------
Proceed ==
    \/ start
    \/ attempt
    \/ all_cooling
    \/ leave_loop
    \/ after_session
    \/ wake
    \/ leave
    \/ fail

EndAttempt == connect \/ attempt_fails \/ handshake_ends

Messages == apply_difficulty \/ job \/ authorize \/ other_messages

Losses == failed_write \/ session_lost

UiStep == no_key \/ key \/ send_command \/ check_shutdown

Terminated == main = "exited" /\ UNCHANGED vars

(* Threads that nobody stops go on hashing. *)
Orphaned == main = "done" /\ mining /\ UNCHANGED vars

Next ==
    \/ interrupt
    \/ emit
    \/ Proceed
    \/ EndAttempt
    \/ Messages
    \/ Losses
    \/ take_command
    \/ shutdown_observed
    \/ receive_event
    \/ updater_stops
    \/ press
    \/ UiStep
    \/ ui_fails
    \/ select
    \/ join_tasks
    \/ exit
    \/ Terminated
    \/ Orphaned

Spec == Init /\ [][Next]_vars

(***************************************************************************)
(* Fairness.  The runtime polls the tasks that are ready, on threads of    *)
(* their own: run_ui blocks its thread while it waits for a key.  Attempts *)
(* end, whatever the pool sends before; select! is random, so a command or *)
(* a shutdown that waits is taken in the end.                              *)
(***************************************************************************)
FairSpec ==
    /\ Spec
    /\ WF_vars(emit)
    /\ WF_vars(Proceed)
    /\ SF_vars(EndAttempt)
    /\ SF_vars(take_command)
    /\ SF_vars(shutdown_observed)
    /\ WF_vars(receive_event)
    /\ WF_vars(updater_stops)
    /\ WF_vars(UiStep)
    /\ WF_vars(select)
    /\ WF_vars(join_tasks)
    /\ WF_vars(exit)

-----------------------------------------------------------------------------
(* The types; no channel holds more than its capacity, and the interface   *)
(* that sends has a command to send.                                       *)
TypeOK ==
    /\ reconnect \in BOOLEAN
    /\ mgr \in {"start", "top", "connecting", "handshake", "session", "ended",
                "waiting", "cooling", "leaving", "failing", "done", "failed"}
    /\ now \in View
    /\ emits \in Seq(ManagerEvent)
    /\ mining \in BOOLEAN
    /\ events \in Seq(ManagerEvent) /\ Len(events) <= EventCap
    /\ app \in View
    /\ updater \in {"running", "done"}
    /\ ui \in {"poll", "send", "check", "done"}
    /\ typed \in Keys \cup {None}
    /\ chosen \in CommandKeys \cup {None} /\ (ui = "send" => chosen \in CommandKeys)
    /\ commands \in Seq(CommandKeys) /\ Len(commands) <= CommandCap
    /\ shutdown \in BOOLEAN
    /\ main \in {"select", "join_manager", "join_state", "join_ui", "done", "exited"}
    /\ finished \in SUBSET {"ui", "manager"}
    /\ joined \in [Tasks -> Nat]

(***************************************************************************)
(* During an attempt, a session and the backoff after it, the dashboard    *)
(* shows what the manager has as soon as the events under way have arrived *)
(* (ROADMAP.md: "stream status/logs into the dashboard").  The difficulty  *)
(* is the connection's own only once the pool has set it.                  *)
(***************************************************************************)
ShownIsCurrent ==
    LET shown == FoldLeft(apply_manager_event, app, events \o emits) IN
    (updater = "running"
       /\ mgr \in {"connecting", "handshake", "session", "ended", "waiting"})
    => \/ shown = now
       \/ now.difficulty = None /\ [shown EXCEPT !.difficulty = None] = now

(***************************************************************************)
(* Each task is awaited once (main.rs: "`JoinHandle` panics if it is       *)
(* polled after completion"), and run_with_tui returns only after the      *)
(* interface, which restores the terminal, and the manager.                *)
(***************************************************************************)
JoinsEachTaskOnce ==
    /\ \A t \in Tasks : joined[t] <= 1
    /\ main \in {"done", "exited"} => \A t \in Tasks : joined[t] = 1

(* The process is gone.  After a share that could not be written it may    *)
(* stay, with mining threads that nobody stops: then run_with_tui has      *)
(* returned at least.                                                      *)
Ended == main = "exited" \/ (main = "done" /\ mgr = "failed")

(***************************************************************************)
(* A shutdown, or the end of the manager or of the interface, ends the     *)
(* program, its mining threads included, whatever channel is full at that  *)
(* moment.  The exception is a share that cannot be written (Ended).       *)
(***************************************************************************)
EndOfOneEndsAll == (shutdown \/ Returned \/ ui = "done") ~> Ended

(***************************************************************************)
(* Q ends the program (ROADMAP.md: "Graceful shutdown on `Q/Esc`"), unless *)
(* the interface is stuck for ever in the send of a command, and but for   *)
(* the exception in Ended.                                                 *)
(***************************************************************************)
QuitEnds ==
    []<>(ui # "send") => (typed = "q" ~> Ended)

(* Q ends the process, without exception (README.md: "`Q` or `Esc` - Quit"). *)
QuitExits == typed = "q" ~> main = "exited"

(***************************************************************************)
(* The interface gets out of the send of a command if the manager gets to  *)
(* a session again and again: a full channel alone does not freeze it.     *)
(***************************************************************************)
InterfaceGoesOn == []<>At("session") => (ui = "send" ~> ui # "send")
=============================================================================
