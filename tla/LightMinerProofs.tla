-------------------------- MODULE LightMinerProofs --------------------------
(***************************************************************************)
(* The program of LightMiner for any pools, jobs, difficulties and keys    *)
(* and channels of any capacity: each task is joined once, and the         *)
(* dashboard shows what the manager has once the events under way have     *)
(* arrived.                                                                *)
(***************************************************************************)
EXTENDS LightMiner, TLAPS

F == INSTANCE FoldProofs WITH Op <- apply_manager_event

-----------------------------------------------------------------------------
(* The joins.  The place of run_with_tui and the task that ended first say *)
(* which handles have been joined.                                         *)
AfterManager == {"join_state", "join_ui", "done", "exited"}

JoinsSoFar ==
    /\ main \in {"select", "join_manager"} \cup AfterManager
    /\ finished = {} <=> main = "select"
    /\ finished \in {{}, {"ui"}, {"manager"}}
    /\ DOMAIN joined = Tasks
    /\ joined["ui"]
          = IF finished = {"ui"} \/ main \in {"done", "exited"} THEN 1 ELSE 0
    /\ joined["manager"]
          = IF finished = {"manager"} \/ main \in AfterManager THEN 1 ELSE 0
    /\ joined["updater"] = IF main \in {"join_ui", "done", "exited"} THEN 1 ELSE 0

LEMMA JoinsInit == Init => JoinsSoFar
  BY DEF Init, JoinsSoFar, Tasks, AfterManager

LEMMA JoinsStep ==
    ASSUME JoinsSoFar, [Next]_vars
    PROVE  JoinsSoFar'
<1>1. CASE select
  <2>1. PICK t \in {"ui", "manager"} : Join(t) /\ finished' = {t}
    BY <1>1 DEF select
  <2> QED BY <1>1, <2>1 DEF select, Join, JoinsSoFar, Tasks, AfterManager
<1>2. CASE join_tasks
  <2>1. CASE Await("manager", "join_manager", "join_state")
    BY <2>1 DEF Await, Join, JoinsSoFar, Tasks, AfterManager
  <2>2. CASE Await("updater", "join_state", "join_ui")
    BY <2>2 DEF Await, Join, JoinsSoFar, Tasks, AfterManager
  <2>3. CASE Await("ui", "join_ui", "done")
    BY <2>3 DEF Await, Join, JoinsSoFar, Tasks, AfterManager
  <2> QED BY <1>2, <2>1, <2>2, <2>3 DEF join_tasks
<1>3. CASE UNCHANGED program
  BY <1>3 DEF JoinsSoFar, program
<1>4. CASE exit
  BY <1>4 DEF exit, JoinsSoFar, AfterManager
<1>5. select \/ join_tasks \/ exit \/ UNCHANGED program
  BY DEF Next, vars, program, interrupt, emit, Proceed, EndAttempt, Messages, Losses,
     start, attempt, all_cooling, leave_loop, after_session, wake, leave, fail,
     connect, attempt_fails, handshake_ends, apply_difficulty, job, authorize,
     other_messages, failed_write, session_lost, take_command, shutdown_observed, receive_event,
     updater_stops, press, UiStep, no_key, key, send_command, check_shutdown, ui_fails,
     Terminated, Orphaned, Rest
<1> QED BY <1>1, <1>2, <1>3, <1>4, <1>5

(* No JoinHandle is polled after it gave its result, and run_with_tui has  *)
(* joined all three tasks when it returns.                                 *)
THEOREM EachTaskIsJoinedOnce == Spec => []JoinsEachTaskOnce
<1>1. Init => JoinsSoFar
  BY JoinsInit
<1>2. JoinsSoFar /\ [Next]_vars => JoinsSoFar'
  BY JoinsStep
<1>3. JoinsSoFar => JoinsEachTaskOnce
  BY DEF JoinsSoFar, JoinsEachTaskOnce, Tasks, AfterManager
<1> QED BY <1>1, <1>2, <1>3, PTL DEF Spec

-----------------------------------------------------------------------------
(* The events, and what each of them changes in the view it is applied to. *)
LEMMA EventTypes ==
    /\ Other \in ManagerEvent
    /\ \A p \in Pools : ActivePool(p) \in ManagerEvent
    /\ \A b \in BOOLEAN : Connected(b) \in ManagerEvent /\ Authorized(b) \in ManagerEvent
    /\ \A d \in Difficulties : Difficulty(d) \in ManagerEvent
    /\ \A j \in Jobs : CurrentJob(j) \in ManagerEvent
    /\ CurrentJob(None) \in ManagerEvent
  BY DEF ManagerEvent

LEMMA Applied ==
    ASSUME NEW v \in View
    PROVE  /\ apply_manager_event(v, Other) = v
           /\ \A p \in Pools : apply_manager_event(v, ActivePool(p)) = [v EXCEPT !.pool = p]
           /\ apply_manager_event(v, Connected(TRUE)) = [v EXCEPT !.connected = TRUE]
           /\ apply_manager_event(v, Connected(FALSE))
                = [v EXCEPT !.connected = FALSE, !.authorized = None]
           /\ \A b \in BOOLEAN :
                 apply_manager_event(v, Authorized(b)) = [v EXCEPT !.authorized = b]
           /\ \A d \in Difficulties :
                 apply_manager_event(v, Difficulty(d)) = [v EXCEPT !.difficulty = d]
           /\ \A j \in Jobs \cup {None} :
                 apply_manager_event(v, CurrentJob(j)) = [v EXCEPT !.job = j]
<1>1. apply_manager_event(v, Other) = v
  <2>1. Other.kind = "other"
    BY DEF Other
  <2>2. Other # Connected(FALSE)
    BY DEF Other, Connected
  <2> QED BY <2>1, <2>2 DEF apply_manager_event
<1>2. ASSUME NEW p \in Pools
      PROVE  apply_manager_event(v, ActivePool(p)) = [v EXCEPT !.pool = p]
  <2>1. ActivePool(p).kind = "pool" /\ ActivePool(p).value = p
    BY DEF ActivePool
  <2>2. ActivePool(p) # Connected(FALSE)
    BY DEF ActivePool, Connected
  <2> QED BY <2>1, <2>2 DEF apply_manager_event
<1>3. ASSUME NEW b \in BOOLEAN
      PROVE  apply_manager_event(v, Authorized(b)) = [v EXCEPT !.authorized = b]
  <2>1. Authorized(b).kind = "authorized" /\ Authorized(b).value = b
    BY DEF Authorized
  <2>2. Authorized(b) # Connected(FALSE)
    BY DEF Authorized, Connected
  <2> QED BY <2>1, <2>2 DEF apply_manager_event
<1>4. ASSUME NEW d \in Difficulties
      PROVE  apply_manager_event(v, Difficulty(d)) = [v EXCEPT !.difficulty = d]
  <2>1. Difficulty(d).kind = "difficulty" /\ Difficulty(d).value = d
    BY DEF Difficulty
  <2>2. Difficulty(d) # Connected(FALSE)
    BY DEF Difficulty, Connected
  <2> QED BY <2>1, <2>2 DEF apply_manager_event
<1>5. ASSUME NEW j \in Jobs \cup {None}
      PROVE  apply_manager_event(v, CurrentJob(j)) = [v EXCEPT !.job = j]
  <2>1. CurrentJob(j).kind = "job" /\ CurrentJob(j).value = j
    BY DEF CurrentJob
  <2>2. CurrentJob(j) # Connected(FALSE)
    BY DEF CurrentJob, Connected
  <2> QED BY <2>1, <2>2 DEF apply_manager_event
<1>6. apply_manager_event(v, Connected(TRUE)) = [v EXCEPT !.connected = TRUE]
  <2>1. Connected(TRUE).kind = "connected" /\ Connected(TRUE).value = TRUE
    BY DEF Connected
  <2>2. Connected(TRUE) # Connected(FALSE)
    BY DEF Connected
  <2> QED BY <2>1, <2>2 DEF apply_manager_event
<1>7. apply_manager_event(v, Connected(FALSE))
        = [v EXCEPT !.connected = FALSE, !.authorized = None]
  <2>1. Connected(FALSE).kind = "connected"
    BY DEF Connected
  <2> QED BY <2>1 DEF apply_manager_event
<1> QED BY <1>1, <1>2, <1>3, <1>4, <1>5, <1>6, <1>7

LEMMA AppliedIsView ==
    ASSUME NEW v \in View, NEW e \in ManagerEvent
    PROVE  apply_manager_event(v, e) \in View
<1>1. CASE e = Other
  BY <1>1, Applied
<1>2. CASE \E p \in Pools : e = ActivePool(p)
  <2>1. PICK p \in Pools : e = ActivePool(p)
    BY <1>2
  <2>2. apply_manager_event(v, e) = [v EXCEPT !.pool = p]
    BY <2>1, Applied
  <2> QED BY <2>2 DEF View
<1>3. CASE e = Connected(TRUE)
  BY <1>3, Applied DEF View
<1>4. CASE e = Connected(FALSE)
  BY <1>4, Applied DEF View
<1>5. CASE \E b \in BOOLEAN : e = Authorized(b)
  <2>1. PICK b \in BOOLEAN : e = Authorized(b)
    BY <1>5
  <2>2. apply_manager_event(v, e) = [v EXCEPT !.authorized = b]
    BY <2>1, Applied
  <2> QED BY <2>2 DEF View
<1>6. CASE \E d \in Difficulties : e = Difficulty(d)
  <2>1. PICK d \in Difficulties : e = Difficulty(d)
    BY <1>6
  <2>2. apply_manager_event(v, e) = [v EXCEPT !.difficulty = d]
    BY <2>1, Applied
  <2> QED BY <2>2 DEF View
<1>7. CASE \E j \in Jobs \cup {None} : e = CurrentJob(j)
  <2>1. PICK j \in Jobs \cup {None} : e = CurrentJob(j)
    BY <1>7
  <2>2. apply_manager_event(v, e) = [v EXCEPT !.job = j]
    BY <2>1, Applied
  <2> QED BY <2>2 DEF View
<1>8. \/ e = Other \/ e = Connected(TRUE) \/ e = Connected(FALSE)
      \/ \E p \in Pools : e = ActivePool(p)
      \/ \E b \in BOOLEAN : e = Authorized(b)
      \/ \E d \in Difficulties : e = Difficulty(d)
      \/ \E j \in Jobs \cup {None} : e = CurrentJob(j)
  BY DEF ManagerEvent
<1> QED BY <1>1, <1>2, <1>3, <1>4, <1>5, <1>6, <1>7, <1>8

(* The sequences of up to three events. *)
LEMMA ShortSequences ==
    /\ <<>> \in Seq(ManagerEvent)
    /\ \A a \in ManagerEvent : <<a>> \in Seq(ManagerEvent)
    /\ \A a, b \in ManagerEvent : <<a, b>> \in Seq(ManagerEvent)
    /\ \A a, b, c \in ManagerEvent : <<a, b, c>> \in Seq(ManagerEvent)
    /\ \A a, b, c, d \in ManagerEvent : <<a, b, c, d>> \in Seq(ManagerEvent)
    /\ \A a, b, c, d, e \in ManagerEvent : <<a, b, c, d, e>> \in Seq(ManagerEvent)
  OBVIOUS

(* What the actions that leave the channels and the tasks alone change. *)
LEMMA TypedByManager ==
    ASSUME TypeOK, Rest, mgr' \in {"start", "top", "connecting", "handshake", "session",
                                   "ended", "waiting", "cooling", "leaving", "failing", "done",
                                   "failed"},
           mining' \in BOOLEAN, now' \in View, emits' \in Seq(ManagerEvent),
           commands' \in Seq(CommandKeys), Len(commands') <= CommandCap
    PROVE  TypeOK'
  BY DEF TypeOK, Rest, manager, interface, program

-----------------------------------------------------------------------------
(* The types. *)
LEMMA TypeInit == Init => TypeOK
<1> SUFFICES ASSUME Init PROVE TypeOK
  OBVIOUS
<1>1. Nothing \in View
  BY DEF View, Nothing
<1>2. <<>> \in Seq(ManagerEvent) /\ <<>> \in Seq(CommandKeys) /\ Len(<<>>) = 0
  OBVIOUS
<1>3. 0 <= EventCap /\ 0 <= CommandCap
  BY LightMinerAssumption
<1>4. joined \in [Tasks -> Nat]
  BY DEF Init
<1> QED BY <1>1, <1>2, <1>3, <1>4 DEF Init, TypeOK

LEMMA TypeProceed ==
    ASSUME TypeOK, Proceed
    PROVE  TypeOK'
<1>1. CASE start
  <2>1. emits' \in Seq(ManagerEvent)
    BY <1>1, EventTypes, ShortSequences DEF start
  <2> QED BY <1>1, <2>1, TypedByManager DEF start, TypeOK
<1>2. CASE attempt
  <2>1. PICK p \in Pools : now' = [Nothing EXCEPT !.pool = p]
                           /\ emits' = <<ActivePool(p), Other, Connected(FALSE), Other>>
    BY <1>2 DEF attempt
  <2>2. emits' \in Seq(ManagerEvent)
    BY <2>1, EventTypes, ShortSequences
  <2>3. now' \in View
    BY <2>1 DEF View, Nothing
  <2> QED BY <1>2, <2>2, <2>3, TypedByManager DEF attempt, TypeOK
<1>3. CASE all_cooling
  <2>1. emits' \in Seq(ManagerEvent)
    BY <1>3, EventTypes, ShortSequences DEF all_cooling
  <2> QED BY <1>3, <2>1, TypedByManager DEF all_cooling, TypeOK
<1>4. CASE leave_loop
  <2>1. emits' \in Seq(ManagerEvent)
    BY <1>4, EventTypes, ShortSequences DEF leave_loop
  <2> QED BY <1>4, <2>1, TypedByManager DEF leave_loop, TypeOK
<1>5. CASE after_session
  <2>1. emits' \in Seq(ManagerEvent)
    BY <1>5, EventTypes, ShortSequences DEF after_session
  <2>2. mgr' \in {"leaving", "waiting"}
    BY <1>5 DEF after_session
  <2> QED BY <1>5, <2>1, <2>2, TypedByManager DEF after_session, TypeOK
<1>6. CASE wake
  <2>1. now' \in View
    BY <1>6 DEF wake, View, TypeOK
  <2> QED BY <1>6, <2>1, TypedByManager DEF wake, TypeOK
<1>7. CASE leave
  <2>1. commands' \in Seq(CommandKeys) /\ Len(commands') <= CommandCap
    BY <1>7, LightMinerAssumption DEF leave
  <2> QED BY <1>7, <2>1, TypedByManager DEF leave, StopMiner, TypeOK
<1>8. CASE fail
  <2>1. commands' \in Seq(CommandKeys) /\ Len(commands') <= CommandCap
    BY <1>8, LightMinerAssumption DEF fail
  <2> QED BY <1>8, <2>1, TypedByManager DEF fail, TypeOK
<1> QED BY <1>1, <1>2, <1>3, <1>4, <1>5, <1>6, <1>7, <1>8 DEF Proceed

(* What is told before or after other events. *)
LEMMA DispatchTypes ==
    ASSUME NEW j \in Jobs \cup {None}, NEW told \in dispatch(j)
    PROVE  told \in Seq(ManagerEvent)
<1> DEFINE e == CurrentJob(j)
<1>1. e \in ManagerEvent /\ Other \in ManagerEvent
  BY EventTypes
<1>2. told = <<e, Other>> \/ told = <<e, Other, Other>>
  BY DEF dispatch
<1> HIDE DEF e
<1> QED BY <1>1, <1>2, ShortSequences

LEMMA TypeEndAttempt ==
    ASSUME TypeOK, EndAttempt
    PROVE  TypeOK'
<1>1. CASE connect
  <2>1. emits' \in Seq(ManagerEvent)
    <3> DEFINE e == Connected(TRUE)
    <3>1. e \in ManagerEvent /\ Other \in ManagerEvent
      BY EventTypes
    <3>2. emits' = <<Other, e, Other>> \/ emits' = <<Other, Other, e, Other>>
      BY <1>1 DEF connect
    <3> HIDE DEF e
    <3> QED BY <3>1, <3>2, ShortSequences
  <2>2. now' \in View
    BY <1>1 DEF connect, TypeOK, View
  <2> QED BY <1>1, <2>1, <2>2, TypedByManager DEF connect, TypeOK
<1>2. CASE attempt_fails
  <2> DEFINE five == <<Other, Connected(FALSE), Other, CurrentJob(None), Other>>
             backoff == IF reconnect THEN <<Other>> ELSE <<>>
  <2>1. PICK told \in {<<>>, <<Other>>, <<Other, Other>>} : emits' = told \o five \o backoff
    BY <1>2 DEF attempt_fails
  <2>2. /\ told \in Seq(ManagerEvent) /\ five \in Seq(ManagerEvent)
        /\ backoff \in Seq(ManagerEvent)
    BY EventTypes, ShortSequences
  <2> HIDE DEF five, backoff
  <2>3. emits' \in Seq(ManagerEvent)
    BY <2>1, <2>2
  <2>4. now' \in View
    BY <1>2 DEF attempt_fails, TypeOK, View, Nothing
  <2>5. mgr' \in {"leaving", "waiting"}
    BY <1>2 DEF attempt_fails
  <2> QED BY <1>2, <2>3, <2>4, <2>5, TypedByManager DEF attempt_fails, TypeOK
<1>3. CASE handshake_ends
  <2>1. <<Other, Other>> \in Seq(ManagerEvent)
    BY EventTypes, ShortSequences
  <2>2. emits' \in Seq(ManagerEvent)
    <3>1. CASE \E j \in Jobs : emits' \in {<<Other, Other>> \o told : told \in dispatch(j)}
      <4>1. PICK j \in Jobs : emits' \in {<<Other, Other>> \o told : told \in dispatch(j)}
        BY <3>1
      <4>2. PICK told \in dispatch(j) : emits' = <<Other, Other>> \o told
        BY <4>1
      <4>3. told \in Seq(ManagerEvent)
        BY DispatchTypes
      <4> QED BY <2>1, <4>2, <4>3
    <3> QED BY <1>3, <2>1, <3>1 DEF handshake_ends
  <2>3. now' \in View
    BY <1>3 DEF handshake_ends, TypeOK, View
  <2>4. mining' \in BOOLEAN
    BY <1>3 DEF handshake_ends, StartMiner, TypeOK
  <2> QED BY <1>3, <2>2, <2>3, <2>4, TypedByManager DEF handshake_ends, TypeOK
<1> QED BY <1>1, <1>2, <1>3 DEF EndAttempt

LEMMA TypeMessages ==
    ASSUME TypeOK, Messages
    PROVE  TypeOK'
<1>1. CASE apply_difficulty
  <2>1. PICK d \in Difficulties : /\ now' = [now EXCEPT !.difficulty = d]
                                  /\ \/ emits' = <<Difficulty(d)>>
                                     \/ emits' = <<Difficulty(d), Other>>
    BY <1>1 DEF apply_difficulty
  <2>2. emits' \in Seq(ManagerEvent)
    BY <2>1, EventTypes, ShortSequences
  <2>3. now' \in View
    BY <2>1 DEF TypeOK, View
  <2> QED BY <1>1, <2>2, <2>3, TypedByManager DEF apply_difficulty, TypeOK
<1>2. CASE job
  <2>1. PICK j \in Jobs : emits' \in dispatch(j) /\ now' = [now EXCEPT !.job = j]
    BY <1>2 DEF job
  <2>2. emits' \in Seq(ManagerEvent)
    BY <2>1, DispatchTypes
  <2>3. now' \in View
    BY <2>1 DEF TypeOK, View
  <2> QED BY <1>2, <2>2, <2>3, TypedByManager DEF job, StartMiner, TypeOK
<1>3. CASE authorize
  <2>1. PICK ok \in BOOLEAN :
           /\ now' = [now EXCEPT !.authorized = ok]
           /\ emits' \in {<<Other, Authorized(ok)>>, <<Other, Authorized(ok), Other>>}
    BY <1>3 DEF authorize
  <2>2. emits' \in Seq(ManagerEvent)
    <3> DEFINE e == Authorized(ok)
    <3>1. e \in ManagerEvent /\ Other \in ManagerEvent
      BY EventTypes
    <3>2. emits' = <<Other, e>> \/ emits' = <<Other, e, Other>>
      BY <2>1
    <3> HIDE DEF e
    <3> QED BY <3>1, <3>2, ShortSequences
  <2>3. now' \in View
    BY <2>1 DEF TypeOK, View
  <2> QED BY <1>3, <2>2, <2>3, TypedByManager DEF authorize, TypeOK
<1>4. CASE other_messages
  <2>1. emits' \in Seq(ManagerEvent)
    BY <1>4, EventTypes, ShortSequences DEF other_messages
  <2> QED BY <1>4, <2>1, TypedByManager DEF other_messages, TypeOK
<1> QED BY <1>1, <1>2, <1>3, <1>4 DEF Messages

(* A session ends by a command, a shutdown or a loss. *)
LEMMA EndSessionTypes ==
    ASSUME NEW told \in Seq(ManagerEvent), EndSession(told)
    PROVE  emits' \in Seq(ManagerEvent)
<1> DEFINE last == <<CurrentJob(None)>>
<1>1. last \in Seq(ManagerEvent) /\ emits' = told \o last
  BY EventTypes, ShortSequences DEF EndSession
<1> HIDE DEF last
<1> QED BY <1>1

LEMMA TypeEndOfSession ==
    ASSUME TypeOK, Losses \/ take_command \/ shutdown_observed
    PROVE  TypeOK'
<1>1. CASE failed_write
  <2>1. emits' \in Seq(ManagerEvent)
    BY <1>1, EventTypes, ShortSequences DEF failed_write
  <2> QED BY <1>1, <2>1, TypedByManager DEF failed_write, TypeOK
<1>2. CASE session_lost
  <2>1. <<Connected(FALSE), Other>> \in Seq(ManagerEvent)
    BY EventTypes, ShortSequences
  <2>2. emits' \in Seq(ManagerEvent) /\ mgr' = "ended" /\ mining' \in BOOLEAN
    BY <1>2, <2>1, EndSessionTypes DEF session_lost, EndSession, StopMiner
  <2>3. now' \in View
    BY <1>2 DEF session_lost, TypeOK, View
  <2> QED BY <1>2, <2>2, <2>3, TypedByManager DEF session_lost, TypeOK
<1>3. CASE take_command
  <2>1. commands' \in Seq(CommandKeys) /\ Len(commands') <= CommandCap
    BY <1>3, LightMinerAssumption DEF take_command, TypeOK
  <2> DEFINE told == IF Head(commands) = "d" THEN <<Other, Other>> ELSE <<Other>>
  <2>2. told \in Seq(ManagerEvent) /\ <<>> \in Seq(ManagerEvent)
    BY EventTypes, ShortSequences
  <2>3. CASE EndSession(told) /\ now' = [now EXCEPT !.job = None]
    <3>1. now' \in View
      BY <2>3 DEF TypeOK, View
    <3>2. emits' \in Seq(ManagerEvent) /\ mgr' = "ended" /\ mining' \in BOOLEAN
      BY <2>2, <2>3, EndSessionTypes DEF EndSession, StopMiner
    <3> QED BY <1>3, <2>1, <3>1, <3>2, TypedByManager DEF take_command, TypeOK
  <2>4. CASE emits' \in {<<>>, told} /\ UNCHANGED <<mgr, now, mining>>
    <3>1. emits' \in Seq(ManagerEvent)
      BY <2>2, <2>4
    <3> QED BY <1>3, <2>1, <2>4, <3>1, TypedByManager DEF take_command, TypeOK
  <2> QED BY <1>3, <2>3, <2>4 DEF take_command
<1>4. CASE shutdown_observed
  <2>1. <<Other>> \in Seq(ManagerEvent)
    BY EventTypes, ShortSequences
  <2>2. emits' \in Seq(ManagerEvent) /\ mgr' = "ended" /\ mining' \in BOOLEAN
    BY <1>4, <2>1, EndSessionTypes DEF shutdown_observed, EndSession, StopMiner
  <2>3. now' \in View
    BY <1>4 DEF shutdown_observed, TypeOK, View
  <2> QED BY <1>4, <2>2, <2>3, TypedByManager DEF shutdown_observed, TypeOK
<1> QED BY <1>1, <1>2, <1>3, <1>4 DEF Losses

(* The channel of the events, and everything that is not the manager. *)
LEMMA TypeChannels ==
    ASSUME TypeOK, emit \/ receive_event \/ updater_stops
    PROVE  TypeOK'
<1>1. CASE emit
  <2>1. Head(emits) \in ManagerEvent /\ emits' \in Seq(ManagerEvent)
    BY <1>1 DEF emit, TypeOK
  <2>2. events' \in Seq(ManagerEvent) /\ Len(events') <= EventCap
    <3>1. CASE Len(events) < EventCap /\ events' = Append(events, Head(emits))
      BY <2>1, <3>1, LightMinerAssumption DEF TypeOK
    <3> QED BY <1>1, <3>1 DEF emit, TypeOK
  <2> QED BY <1>1, <2>1, <2>2 DEF emit, TypeOK, interface, program
<1>2. CASE receive_event
  <2>1. Head(events) \in ManagerEvent /\ events' \in Seq(ManagerEvent)
        /\ Len(events') <= EventCap
    BY <1>2, LightMinerAssumption DEF receive_event, TypeOK
  <2>2. app' \in View
    BY <1>2, <2>1, AppliedIsView DEF receive_event, TypeOK
  <2> QED BY <1>2, <2>1, <2>2 DEF receive_event, TypeOK, manager, interface, program
<1>3. CASE updater_stops
  <2>1. events' \in Seq(ManagerEvent) /\ Len(events') <= EventCap
    BY <1>3, LightMinerAssumption DEF updater_stops
  <2> QED BY <1>3, <2>1 DEF updater_stops, TypeOK, manager, interface, program
<1> QED BY <1>1, <1>2, <1>3

LEMMA TypeInterface ==
    ASSUME TypeOK, interrupt \/ press \/ UiStep \/ ui_fails
    PROVE  TypeOK'
<1>1. CASE interrupt
  BY <1>1 DEF interrupt, TypeOK, manager, interface, program
<1>2. CASE press
  BY <1>2 DEF press, TypeOK, manager, program
<1>3. CASE no_key
  BY <1>3 DEF no_key, TypeOK, manager, program
<1>4. CASE key
  BY <1>4 DEF key, TypeOK, manager, program
<1>5. CASE send_command
  <2>1. commands' \in Seq(CommandKeys) /\ Len(commands') <= CommandCap
    <3>1. CASE commands' = commands
      BY <3>1 DEF TypeOK
    <3>2. CASE Len(commands) < CommandCap /\ commands' = Append(commands, chosen)
      BY <1>5, <3>2, LightMinerAssumption DEF send_command, TypeOK
    <3> QED BY <1>5, <3>1, <3>2 DEF send_command
  <2> QED BY <1>5, <2>1 DEF send_command, TypeOK, manager, program
<1>6. CASE check_shutdown
  BY <1>6 DEF check_shutdown, TypeOK, manager, program
<1>7. CASE ui_fails
  BY <1>7 DEF ui_fails, TypeOK, manager, program
<1> QED BY <1>1, <1>2, <1>3, <1>4, <1>5, <1>6, <1>7 DEF UiStep

LEMMA TypeMain ==
    ASSUME TypeOK, select \/ join_tasks \/ exit
    PROVE  TypeOK'
<1>1. CASE select
  <2>1. PICK t \in {"ui", "manager"} : Join(t) /\ finished' = {t}
    BY <1>1 DEF select
  <2>2. finished' \in SUBSET {"ui", "manager"} /\ joined' \in [Tasks -> Nat]
    BY <2>1 DEF Join, TypeOK, Tasks
  <2> QED BY <1>1, <2>2 DEF select, TypeOK, manager, interface
<1>2. ASSUME NEW t \in Tasks, NEW here, Await(t, here, main')
      PROVE  joined' \in [Tasks -> Nat]
  BY <1>2 DEF Await, Join, TypeOK, Tasks
<1>3. CASE join_tasks
  <2>1. joined' \in [Tasks -> Nat]
    BY <1>2, <1>3 DEF join_tasks, Await, Tasks
  <2>2. main' \in {"join_state", "join_ui", "done"}
    BY <1>3 DEF join_tasks, Await
  <2>3. UNCHANGED <<reconnect, manager, events, app, updater, interface, commands,
                    shutdown, finished>>
    BY <1>3 DEF join_tasks, Await
  <2> QED BY <2>1, <2>2, <2>3 DEF TypeOK, manager, interface
<1>4. CASE exit
  BY <1>4 DEF exit, TypeOK, manager, interface
<1> QED BY <1>1, <1>3, <1>4

LEMMA TypeStep == TypeOK /\ [Next]_vars => TypeOK'
<1> SUFFICES ASSUME TypeOK, [Next]_vars PROVE TypeOK'
  OBVIOUS
<1>1. CASE UNCHANGED vars
  BY <1>1 DEF vars, TypeOK, manager, interface, program
<1>2. CASE Next
  BY <1>1, <1>2, TypeProceed, TypeEndAttempt, TypeMessages, TypeEndOfSession,
     TypeChannels, TypeInterface, TypeMain DEF Next, Terminated, Orphaned
<1> QED BY <1>1, <1>2

(* Whatever is sent, no channel holds more than its capacity, and what     *)
(* waits in one is an event or a command.                                  *)
THEOREM TypeCorrect == Spec => []TypeOK
  BY TypeInit, TypeStep, PTL DEF Spec

-----------------------------------------------------------------------------
(* What the dashboard shows once the events under way have arrived.  During *)
(* an attempt and after it this is what the manager has, but for the        *)
(* difficulty, which the pool may not have set; in between no job is shown. *)
Shown == F!Folded(app, events \o emits)

Agree(v, w) ==
    /\ v.pool = w.pool
    /\ v.connected = w.connected
    /\ v.authorized = w.authorized
    /\ v.job = w.job
    /\ w.difficulty \in {None, v.difficulty}

Attempting == {"connecting", "handshake", "session", "ended", "waiting"}

ShownSoFar ==
    /\ mgr \in {"ended", "waiting"} => now.job = None
    /\ updater = "running" =>
          /\ Shown \in View
          /\ mgr \in Attempting => Agree(Shown, now)
          /\ mgr \in {"start", "top", "cooling"} => Shown.job = None

LEMMA ShownIsFolded == Shown = FoldLeft(apply_manager_event, app, events \o emits)
  BY DEF Shown, F!Folded, F!FoldLeft, FoldLeft, F!MapThenFoldSet, MapThenFoldSet,
     F!Max, Max

(* Up to five events in a row. *)
LEMMA FoldOne ==
    ASSUME NEW v, NEW a \in ManagerEvent
    PROVE  F!Folded(v, <<a>>) = apply_manager_event(v, a)
  BY F!FoldedOne

LEMMA FoldTwo ==
    ASSUME NEW v, NEW a \in ManagerEvent, NEW b \in ManagerEvent
    PROVE  F!Folded(v, <<a, b>>)
             = apply_manager_event(apply_manager_event(v, a), b)
<1> DEFINE r == <<a, b>>
<1>1. r \in Seq(ManagerEvent) /\ r # <<>> /\ Head(r) = a /\ Tail(r) = <<b>>
  OBVIOUS
<1> HIDE DEF r
<1>2. F!Folded(v, r) = F!Folded(apply_manager_event(v, Head(r)), Tail(r))
  BY <1>1, F!FoldedTail
<1> QED BY <1>1, <1>2, FoldOne DEF r

LEMMA FoldThree ==
    ASSUME NEW v, NEW a \in ManagerEvent, NEW b \in ManagerEvent, NEW c \in ManagerEvent
    PROVE  F!Folded(v, <<a, b, c>>)
             = apply_manager_event(apply_manager_event(apply_manager_event(v, a), b), c)
<1> DEFINE r == <<a, b, c>>
<1>1. r \in Seq(ManagerEvent) /\ r # <<>> /\ Head(r) = a /\ Tail(r) = <<b, c>>
  OBVIOUS
<1> HIDE DEF r
<1>2. F!Folded(v, r) = F!Folded(apply_manager_event(v, Head(r)), Tail(r))
  BY <1>1, F!FoldedTail
<1> QED BY <1>1, <1>2, FoldTwo DEF r

LEMMA FoldFour ==
    ASSUME NEW v, NEW a \in ManagerEvent, NEW b \in ManagerEvent, NEW c \in ManagerEvent,
           NEW d \in ManagerEvent
    PROVE  F!Folded(v, <<a, b, c, d>>)
             = apply_manager_event(apply_manager_event(apply_manager_event(
                   apply_manager_event(v, a), b), c), d)
<1> DEFINE r == <<a, b, c, d>>
<1>1. r \in Seq(ManagerEvent) /\ r # <<>> /\ Head(r) = a /\ Tail(r) = <<b, c, d>>
  OBVIOUS
<1> HIDE DEF r
<1>2. F!Folded(v, r) = F!Folded(apply_manager_event(v, Head(r)), Tail(r))
  BY <1>1, F!FoldedTail
<1> QED BY <1>1, <1>2, FoldThree DEF r

LEMMA FoldFive ==
    ASSUME NEW v, NEW a \in ManagerEvent, NEW b \in ManagerEvent, NEW c \in ManagerEvent,
           NEW d \in ManagerEvent, NEW e \in ManagerEvent
    PROVE  F!Folded(v, <<a, b, c, d, e>>)
             = apply_manager_event(apply_manager_event(apply_manager_event(
                   apply_manager_event(apply_manager_event(v, a), b), c), d), e)
<1> DEFINE r == <<a, b, c, d, e>>
<1>1. r \in Seq(ManagerEvent) /\ r # <<>> /\ Head(r) = a /\ Tail(r) = <<b, c, d, e>>
  OBVIOUS
<1> HIDE DEF r
<1>2. F!Folded(v, r) = F!Folded(apply_manager_event(v, Head(r)), Tail(r))
  BY <1>1, F!FoldedTail
<1> QED BY <1>1, <1>2, FoldFour DEF r

(* The others change nothing. *)
LEMMA OthersShowNothing ==
    ASSUME NEW v \in View, NEW told \in {<<>>, <<Other>>, <<Other, Other>>}
    PROVE  F!Folded(v, told) = v
<1> DEFINE o == Other
<1>1. o \in ManagerEvent /\ apply_manager_event(v, o) = v
  BY EventTypes, Applied
<1>2. told \in {<<>>, <<o>>, <<o, o>>}
  OBVIOUS
<1> HIDE DEF o
<1>3. F!Folded(v, <<>>) = v
  BY F!FoldedEmpty
<1>4. F!Folded(v, <<o>>) = v
  BY <1>1, FoldOne
<1>5. F!Folded(v, <<o, o>>) = v
  BY <1>1, FoldTwo
<1> QED BY <1>2, <1>3, <1>4, <1>5

(* When the manager has nothing left to emit, it emits to what is shown.   *)
LEMMA ShownNext ==
    ASSUME TypeOK, Rest, emits = <<>>, emits' \in Seq(ManagerEvent)
    PROVE  Shown' = F!Folded(Shown, emits')
<1> DEFINE r == emits'
<1>1. Shown' = F!Folded(app, events \o r)
  BY DEF Shown, Rest
<1>2. events \in Seq(ManagerEvent) /\ r \in Seq(ManagerEvent) /\ events \o emits = events
  BY DEF TypeOK
<1> HIDE DEF r
<1>3. F!Folded(app, events \o r) = F!Folded(F!Folded(app, events), r)
  BY <1>2, F!FoldedConcat
<1> QED BY <1>1, <1>2, <1>3 DEF Shown, r

(* What the dashboard shows after the events of an attempt that begins, of *)
(* one that fails, of a job that is dispatched and of a session that ends. *)
LEMMA AttemptIsShown ==
    ASSUME NEW v \in View, NEW p \in Pools
    PROVE  F!Folded(v, <<ActivePool(p), Other, Connected(FALSE), Other>>)
             = [v EXCEPT !.pool = p, !.connected = FALSE, !.authorized = None]
<1> DEFINE o == Other
           a == ActivePool(p)
           c == Connected(FALSE)
           w == [v EXCEPT !.pool = p]
           x == [w EXCEPT !.connected = FALSE, !.authorized = None]
<1>1. w \in View /\ x \in View
  BY DEF View
<1>2. apply_manager_event(v, a) = w
  BY Applied
<1>3. apply_manager_event(w, c) = x
  BY <1>1, Applied
<1>4. apply_manager_event(w, o) = w /\ apply_manager_event(x, o) = x
  BY <1>1, Applied
<1>5. o \in ManagerEvent /\ a \in ManagerEvent /\ c \in ManagerEvent
  BY EventTypes
<1>6. x = [v EXCEPT !.pool = p, !.connected = FALSE, !.authorized = None]
  BY DEF View
<1> HIDE DEF o, a, c, w, x
<1>7. F!Folded(v, <<a, o, c, o>>) = x
  BY <1>2, <1>3, <1>4, <1>5, FoldFour
<1> QED BY <1>6, <1>7 DEF o, a, c

LEMMA FailureIsShown ==
    ASSUME NEW v \in View
    PROVE  F!Folded(v, <<Other, Connected(FALSE), Other, CurrentJob(None), Other>>)
             = [v EXCEPT !.connected = FALSE, !.authorized = None, !.job = None]
<1> DEFINE o == Other
           c == Connected(FALSE)
           n == CurrentJob(None)
           w == [v EXCEPT !.connected = FALSE, !.authorized = None]
           x == [w EXCEPT !.job = None]
<1>1. w \in View /\ x \in View
  BY DEF View
<1>2. apply_manager_event(v, c) = w /\ apply_manager_event(w, n) = x
  BY <1>1, Applied
<1>3. apply_manager_event(v, o) = v /\ apply_manager_event(w, o) = w
      /\ apply_manager_event(x, o) = x
  BY <1>1, Applied
<1>4. o \in ManagerEvent /\ n \in ManagerEvent /\ c \in ManagerEvent
  BY EventTypes
<1>5. x = [v EXCEPT !.connected = FALSE, !.authorized = None, !.job = None]
  BY DEF View
<1> HIDE DEF o, c, n, w, x
<1>6. F!Folded(v, <<o, c, o, n, o>>) = x
  BY <1>2, <1>3, <1>4, FoldFive
<1> QED BY <1>5, <1>6 DEF o, c, n

LEMMA DispatchIsShown ==
    ASSUME NEW v \in View, NEW j \in Jobs, NEW told \in dispatch(j)
    PROVE  F!Folded(v, told) = [v EXCEPT !.job = j]
<1> DEFINE o == Other
           e == CurrentJob(j)
           w == [v EXCEPT !.job = j]
<1>1. w \in View
  BY DEF View
<1>2. apply_manager_event(v, e) = w /\ apply_manager_event(w, o) = w
  BY <1>1, Applied
<1>3. o \in ManagerEvent /\ e \in ManagerEvent
  BY EventTypes
<1>4. told = <<e, o>> \/ told = <<e, o, o>>
  BY DEF dispatch
<1> HIDE DEF o, e, w
<1>5. F!Folded(v, <<e, o>>) = w
  BY <1>2, <1>3, FoldTwo
<1>6. F!Folded(v, <<e, o, o>>) = w
  BY <1>2, <1>3, FoldThree
<1> QED BY <1>4, <1>5, <1>6 DEF w

LEMMA EndIsShown ==
    ASSUME NEW v \in View, NEW told \in Seq(ManagerEvent), F!Folded(v, told) \in View
    PROVE  F!Folded(v, told \o <<CurrentJob(None)>>) = [F!Folded(v, told) EXCEPT !.job = None]
<1> DEFINE e == CurrentJob(None)
           w == F!Folded(v, told)
           r == <<e>>
<1>1. apply_manager_event(w, e) = [w EXCEPT !.job = None]
  BY Applied
<1>2. e \in ManagerEvent
  BY EventTypes
<1>3. r \in Seq(ManagerEvent)
  BY <1>2, ShortSequences
<1> HIDE DEF e
<1>4. F!Folded(w, r) = apply_manager_event(w, e)
  BY <1>2, FoldOne
<1> HIDE DEF w, r
<1>5. F!Folded(v, told \o r) = F!Folded(w, r)
  BY <1>3, F!FoldedConcat DEF w
<1> QED BY <1>1, <1>4, <1>5 DEF e, w, r

-----------------------------------------------------------------------------
LEMMA ShownInit == Init => ShownSoFar
<1> SUFFICES ASSUME Init PROVE ShownSoFar
  OBVIOUS
<1>1. events \o emits = <<>> /\ F!Folded(app, <<>>) = app
  BY F!FoldedEmpty DEF Init
<1>2. Shown = Nothing
  BY <1>1 DEF Shown, Init
<1>3. Nothing \in View /\ Nothing.job = None
  BY DEF View, Nothing
<1> QED BY <1>2, <1>3 DEF ShownSoFar, Init, Attempting

(* Nothing is shown of events that are others. *)
LEMMA ShownByOthers ==
    ASSUME TypeOK, ShownSoFar, Rest, emits = <<>>, updater = "running",
           emits' \in {<<>>, <<Other>>, <<Other, Other>>}
    PROVE  Shown' = Shown
<1>1. emits' \in Seq(ManagerEvent)
  BY EventTypes, ShortSequences
<1>2. Shown' = F!Folded(Shown, emits')
  BY <1>1, ShownNext
<1>3. Shown \in View
  BY DEF ShownSoFar
<1> HIDE DEF Shown
<1> QED BY <1>2, <1>3, OthersShowNothing

LEMMA ShownProceed ==
    ASSUME TypeOK, ShownSoFar, Proceed, TypeOK'
    PROVE  ShownSoFar'
<1>0. Rest /\ emits = <<>> /\ updater' = updater
  BY DEF Proceed, start, attempt, all_cooling, leave_loop, after_session, wake, leave,
         fail, At, Rest
<1> USE DEF Attempting
<1>1. CASE start
  <2>1. emits' \in {<<>>, <<Other>>, <<Other, Other>>} /\ mgr' \in {"leaving", "top"}
        /\ mgr = "start"
    BY <1>1 DEF start, At
  <2>2. updater = "running" => Shown' = Shown
    BY <1>0, <2>1, ShownByOthers
  <2> QED BY <1>0, <2>1, <2>2 DEF ShownSoFar
<1>2. CASE attempt
  <2>1. PICK p \in Pools : now' = [Nothing EXCEPT !.pool = p]
                           /\ emits' = <<ActivePool(p), Other, Connected(FALSE), Other>>
    BY <1>2 DEF attempt
  <2>2. mgr = "top" /\ mgr' = "connecting"
    BY <1>2 DEF attempt, At
  <2>3. ASSUME updater = "running" PROVE Shown' \in View /\ Agree(Shown', now')
    <3>1. Shown' = F!Folded(Shown, emits')
      BY <1>0, ShownNext DEF TypeOK
    <3>2. Shown \in View /\ Shown.job = None
      BY <2>2, <2>3 DEF ShownSoFar
    <3>3. Shown' = [Shown EXCEPT !.pool = p, !.connected = FALSE, !.authorized = None]
      BY <2>1, <3>1, <3>2, AttemptIsShown
    <3>4. now' = [pool |-> p, connected |-> FALSE, authorized |-> None,
                  difficulty |-> None, job |-> None]
      BY <2>1 DEF Nothing
    <3> HIDE DEF Shown
    <3> QED BY <3>2, <3>3, <3>4 DEF Agree, View
  <2> QED BY <1>0, <2>2, <2>3 DEF ShownSoFar
<1>3. CASE all_cooling \/ leave_loop
  <2>1. emits' = <<Other>> /\ mgr' \in {"cooling", "leaving"} /\ mgr = "top"
    BY <1>3 DEF all_cooling, leave_loop, At
  <2>2. updater = "running" => Shown' = Shown
    BY <1>0, <2>1, ShownByOthers
  <2> QED BY <1>0, <2>1, <2>2 DEF ShownSoFar
<1>4. CASE after_session
  <2>1. emits' \in {<<>>, <<Other>>} /\ mgr' \in {"leaving", "waiting"} /\ mgr = "ended"
        /\ now' = now
    BY <1>4 DEF after_session, At
  <2>2. updater = "running" => Shown' = Shown
    BY <1>0, <2>1, ShownByOthers
  <2> QED BY <1>0, <2>1, <2>2 DEF ShownSoFar
<1>5. CASE wake
  <2>1. mgr \in {"waiting", "cooling"} /\ mgr' = "top" /\ emits' = <<>>
    BY <1>5 DEF wake, At
  <2>2. updater = "running" => Shown' = Shown
    BY <1>0, <2>1, ShownByOthers
  <2>3. updater = "running" => Shown.job = None
    BY <2>1 DEF ShownSoFar, Agree
  <2> QED BY <1>0, <2>1, <2>2, <2>3 DEF ShownSoFar
<1>6. CASE leave \/ fail
  <2>1. mgr' \in {"done", "failed"} /\ emits' = <<>>
    BY <1>0, <1>6 DEF leave, fail
  <2>2. updater = "running" => Shown' = Shown
    BY <1>0, <2>1, ShownByOthers
  <2> QED BY <1>0, <2>1, <2>2 DEF ShownSoFar
<1> QED BY <1>1, <1>2, <1>3, <1>4, <1>5, <1>6 DEF Proceed

LEMMA ShownEndAttempt ==
    ASSUME TypeOK, ShownSoFar, EndAttempt, TypeOK'
    PROVE  ShownSoFar'
<1>0. /\ Rest /\ emits = <<>> /\ updater' = updater
      /\ mgr \in {"connecting", "handshake"} /\ mgr' \notin {"start", "top", "cooling"}
      /\ mgr' # "ended"
  BY DEF EndAttempt, connect, attempt_fails, handshake_ends, At, Rest
<1>1. ASSUME updater = "running"
      PROVE  /\ Shown \in View /\ Agree(Shown, now)
             /\ Shown' = F!Folded(Shown, emits')
  BY <1>0, <1>1, ShownNext DEF ShownSoFar, Attempting, TypeOK
<1>2. SUFFICES /\ mgr' = "waiting" => now'.job = None
               /\ updater = "running" => Shown' \in View /\ Agree(Shown', now')
  BY <1>0 DEF ShownSoFar
<1> HIDE DEF Shown
<1>3. CASE connect
  <2> DEFINE o == Other
             e == Connected(TRUE)
             v == [Shown EXCEPT !.connected = TRUE]
  <2>1. emits' = <<o, e, o>> \/ emits' = <<o, o, e, o>>
    BY <1>3 DEF connect
  <2>2. now' = [now EXCEPT !.connected = TRUE] /\ mgr' = "handshake"
    BY <1>3 DEF connect
  <2>3. o \in ManagerEvent /\ e \in ManagerEvent
    BY EventTypes
  <2>4. ASSUME updater = "running" PROVE Shown' = v
    <3>1. v \in View
      BY <1>1, <2>4 DEF View
    <3>2. apply_manager_event(Shown, o) = Shown /\ apply_manager_event(Shown, e) = v
          /\ apply_manager_event(v, o) = v
      BY <1>1, <2>4, <3>1, Applied
    <3> HIDE DEF o, e, v
    <3>3. F!Folded(Shown, <<o, e, o>>) = v /\ F!Folded(Shown, <<o, o, e, o>>) = v
      BY <2>3, <3>2, FoldThree, FoldFour
    <3> QED BY <1>1, <2>1, <2>4, <3>3
  <2> QED BY <1>1, <2>2, <2>4 DEF Agree, View, TypeOK
<1>4. CASE attempt_fails
  <2> DEFINE five == <<Other, Connected(FALSE), Other, CurrentJob(None), Other>>
             backoff == IF reconnect THEN <<Other>> ELSE <<>>
             v == [Shown EXCEPT !.connected = FALSE, !.authorized = None, !.job = None]
  <2>1. PICK told \in {<<>>, <<Other>>, <<Other, Other>>} : emits' = told \o five \o backoff
    BY <1>4 DEF attempt_fails
  <2>2. /\ told \in Seq(ManagerEvent) /\ five \in Seq(ManagerEvent)
        /\ backoff \in Seq(ManagerEvent)
    BY EventTypes, ShortSequences
  <2>3. now' = [Nothing EXCEPT !.pool = now.pool, !.difficulty = now.difficulty]
    BY <1>4 DEF attempt_fails
  <2>4. now' = [pool |-> now.pool, connected |-> FALSE, authorized |-> None,
                difficulty |-> now.difficulty, job |-> None]
    BY <2>3 DEF Nothing
  <2>5. ASSUME updater = "running" PROVE Shown' = v
    <3>1. F!Folded(Shown, told) = Shown
      BY <1>1, <2>5, OthersShowNothing
    <3>2. F!Folded(Shown, five) = v
      BY <1>1, <2>5, FailureIsShown
    <3>3. v \in View
      BY <1>1, <2>5 DEF View
    <3>4. F!Folded(v, backoff) = v
      <4>1. backoff \in {<<>>, <<Other>>, <<Other, Other>>}
        OBVIOUS
      <4> HIDE DEF v, backoff
      <4> QED BY <3>3, <4>1, OthersShowNothing
    <3> HIDE DEF five, backoff, v
    <3> DEFINE first == told \o five
    <3>5. first \in Seq(ManagerEvent) /\ emits' = first \o backoff
      BY <2>1, <2>2
    <3>6. F!Folded(Shown, told \o five) = F!Folded(F!Folded(Shown, told), five)
      BY <2>2, F!FoldedConcat
    <3>7. F!Folded(Shown, first) = v
      BY <3>1, <3>2, <3>6
    <3> HIDE DEF first
    <3>8. F!Folded(Shown, first \o backoff) = F!Folded(F!Folded(Shown, first), backoff)
      BY <2>2, <3>5, F!FoldedConcat
    <3> QED BY <1>1, <2>5, <3>4, <3>5, <3>7, <3>8
  <2>6. updater = "running" => Shown' \in View /\ Agree(Shown', now')
    BY <1>1, <2>4, <2>5 DEF Agree, View
  <2> QED BY <2>4, <2>6
<1>5. CASE handshake_ends
  <2> DEFINE two == <<Other, Other>>
  <2>0. mgr' = "session"
    BY <1>5 DEF handshake_ends
  <2>1. two \in Seq(ManagerEvent)
    BY EventTypes, ShortSequences
  <2>2. updater = "running" => F!Folded(Shown, two) = Shown
    BY <1>1, OthersShowNothing
  <2>3. CASE emits' = two /\ now' = now
    BY <1>1, <2>0, <2>2, <2>3
  <2>4. CASE \E j \in Jobs : /\ emits' \in {two \o told : told \in dispatch(j)}
                             /\ now' = [now EXCEPT !.job = j]
    <3>1. PICK j \in Jobs : /\ emits' \in {two \o told : told \in dispatch(j)}
                            /\ now' = [now EXCEPT !.job = j]
      BY <2>4
    <3> HIDE DEF two
    <3>2. PICK told \in dispatch(j) : emits' = two \o told
      BY <3>1
    <3>3. told \in Seq(ManagerEvent)
      BY DispatchTypes
    <3>4. F!Folded(Shown, two \o told) = F!Folded(F!Folded(Shown, two), told)
      BY <2>1, <3>3, F!FoldedConcat
    <3>5. ASSUME updater = "running" PROVE Shown' = [Shown EXCEPT !.job = j]
      <4>1. F!Folded(Shown, told) = [Shown EXCEPT !.job = j]
        BY <1>1, <3>5, DispatchIsShown
      <4> QED BY <1>1, <2>2, <3>2, <3>4, <3>5, <4>1
    <3> QED BY <1>1, <2>0, <3>1, <3>5 DEF Agree, View, TypeOK
  <2> QED BY <1>5, <2>3, <2>4 DEF handshake_ends
<1> QED BY <1>3, <1>4, <1>5 DEF EndAttempt

LEMMA ShownMessages ==
    ASSUME TypeOK, ShownSoFar, Messages, TypeOK'
    PROVE  ShownSoFar'
<1>0. /\ Rest /\ emits = <<>> /\ updater' = updater
      /\ mgr \in {"handshake", "session"} /\ mgr' = mgr
  BY DEF Messages, apply_difficulty, job, authorize, other_messages, At, Rest
<1>1. ASSUME updater = "running"
      PROVE  /\ Shown \in View /\ Agree(Shown, now)
             /\ Shown' = F!Folded(Shown, emits')
  BY <1>0, <1>1, ShownNext DEF ShownSoFar, Attempting, TypeOK
<1>2. SUFFICES updater = "running" => Shown' \in View /\ Agree(Shown', now')
  BY <1>0 DEF ShownSoFar
<1> HIDE DEF Shown
<1> SUFFICES ASSUME updater = "running" PROVE Shown' \in View /\ Agree(Shown', now')
  OBVIOUS
<1>3. CASE apply_difficulty
  <2>1. PICK d \in Difficulties : /\ now' = [now EXCEPT !.difficulty = d]
                                  /\ \/ emits' = <<Difficulty(d)>>
                                     \/ emits' = <<Difficulty(d), Other>>
    BY <1>3 DEF apply_difficulty
  <2> DEFINE o == Other
             e == Difficulty(d)
             v == [Shown EXCEPT !.difficulty = d]
  <2>2. v \in View
    BY <1>1 DEF View
  <2>3. apply_manager_event(Shown, e) = v /\ apply_manager_event(v, o) = v
    BY <1>1, <2>2, Applied
  <2>4. o \in ManagerEvent /\ e \in ManagerEvent
    BY EventTypes
  <2>5. emits' = <<e>> \/ emits' = <<e, o>>
    BY <2>1
  <2>6. Shown' = v
    <3> HIDE DEF o, e, v
    <3>1. F!Folded(Shown, <<e>>) = v /\ F!Folded(Shown, <<e, o>>) = v
      BY <2>3, <2>4, FoldOne, FoldTwo
    <3> QED BY <1>1, <2>5, <3>1
  <2> QED BY <1>1, <2>1, <2>6 DEF Agree, View, TypeOK
<1>4. CASE job
  <2>1. PICK j \in Jobs : emits' \in dispatch(j) /\ now' = [now EXCEPT !.job = j]
    BY <1>4 DEF job
  <2>2. Shown' = [Shown EXCEPT !.job = j]
    BY <1>1, <2>1, DispatchIsShown
  <2> QED BY <1>1, <2>1, <2>2 DEF Agree, View, TypeOK
<1>5. CASE authorize
  <2>1. PICK ok \in BOOLEAN :
           /\ now' = [now EXCEPT !.authorized = ok]
           /\ emits' \in {<<Other, Authorized(ok)>>, <<Other, Authorized(ok), Other>>}
    BY <1>5 DEF authorize
  <2> DEFINE o == Other
             e == Authorized(ok)
             v == [Shown EXCEPT !.authorized = ok]
  <2>2. v \in View
    BY <1>1 DEF View
  <2>3. apply_manager_event(Shown, o) = Shown /\ apply_manager_event(Shown, e) = v
        /\ apply_manager_event(v, o) = v
    BY <1>1, <2>2, Applied
  <2>4. o \in ManagerEvent /\ e \in ManagerEvent
    BY EventTypes
  <2>5. emits' = <<o, e>> \/ emits' = <<o, e, o>>
    BY <2>1
  <2>6. Shown' = v
    <3> HIDE DEF o, e, v
    <3>1. F!Folded(Shown, <<o, e>>) = v /\ F!Folded(Shown, <<o, e, o>>) = v
      BY <2>3, <2>4, FoldTwo, FoldThree
    <3> QED BY <1>1, <2>5, <3>1
  <2> QED BY <1>1, <2>1, <2>6 DEF Agree, View, TypeOK
<1>6. CASE other_messages
  <2>1. emits' \in {<<>>, <<Other>>, <<Other, Other>>} /\ now' = now
    BY <1>6 DEF other_messages
  <2>2. Shown' = Shown
    BY <1>0, <2>1, ShownByOthers
  <2> QED BY <1>1, <2>1, <2>2
<1> QED BY <1>3, <1>4, <1>5, <1>6 DEF Messages

LEMMA ShownAtEndOfSession ==
    ASSUME TypeOK, ShownSoFar, Losses \/ take_command \/ shutdown_observed, TypeOK'
    PROVE  ShownSoFar'
<1>0. Rest /\ emits = <<>> /\ updater' = updater /\ mgr = "session"
  BY DEF Losses, failed_write, session_lost, take_command, shutdown_observed, At, Rest
<1>1. ASSUME updater = "running"
      PROVE  /\ Shown \in View /\ Agree(Shown, now)
             /\ Shown' = F!Folded(Shown, emits')
  BY <1>0, <1>1, ShownNext DEF ShownSoFar, Attempting, TypeOK
<1>2. ASSUME NEW told \in {<<Other>>, <<Other, Other>>}, EndSession(told),
             now' = [now EXCEPT !.job = None]
      PROVE  ShownSoFar'
  <2>1. mgr' = "ended" /\ now'.job = None
    BY <1>2 DEF EndSession, TypeOK, View
  <2>2. told \in Seq(ManagerEvent) /\ told \in {<<>>, <<Other>>, <<Other, Other>>}
    BY EventTypes, ShortSequences
  <2>3. ASSUME updater = "running" PROVE Shown' \in View /\ Agree(Shown', now')
    <3>1. Shown \in View /\ Agree(Shown, now)
      BY <1>1, <2>3
    <3> HIDE DEF Shown
    <3>2. F!Folded(Shown, told) = Shown
      BY <2>2, <3>1, OthersShowNothing
    <3>3. emits' = told \o <<CurrentJob(None)>>
      BY <1>2 DEF EndSession
    <3>4. F!Folded(Shown, told \o <<CurrentJob(None)>>) = [Shown EXCEPT !.job = None]
      BY <2>2, <3>1, <3>2, EndIsShown
    <3>5. Shown' = [Shown EXCEPT !.job = None]
      BY <1>1, <2>3, <3>3, <3>4
    <3> QED BY <1>2, <3>1, <3>5 DEF Agree, View, TypeOK
  <2> QED BY <1>0, <2>1, <2>3 DEF ShownSoFar
<1>3. ASSUME emits' \in {<<>>, <<Other>>, <<Other, Other>>}, now' = now,
             mgr' \in {"session", "failing"}
      PROVE  ShownSoFar'
  <2>1. updater = "running" => Shown' = Shown
    BY <1>0, <1>3, ShownByOthers
  <2> QED BY <1>0, <1>1, <1>3, <2>1 DEF ShownSoFar, Attempting
<1>4. CASE failed_write
  <2>1. emits' = <<Other>> /\ now' = now /\ mgr' = "failing"
    BY <1>4 DEF failed_write
  <2> QED BY <1>3, <2>1
<1>5. CASE session_lost
  <2> DEFINE c == Connected(FALSE)
             o == Other
             told == <<c, o>>
             v == [Shown EXCEPT !.connected = FALSE, !.authorized = None]
  <2>1. /\ mgr' = "ended" /\ now'.job = None
        /\ now' = [now EXCEPT !.connected = FALSE, !.authorized = None, !.job = None]
    BY <1>5 DEF session_lost, EndSession, TypeOK, View
  <2>2. c \in ManagerEvent /\ o \in ManagerEvent
    BY EventTypes
  <2>3. told \in Seq(ManagerEvent)
    BY <2>2, ShortSequences
  <2>4. ASSUME updater = "running" PROVE Shown' \in View /\ Agree(Shown', now')
    <3>1. Shown \in View /\ Agree(Shown, now)
      BY <1>1, <2>4
    <3> HIDE DEF Shown
    <3>2. v \in View
      BY <3>1 DEF View
    <3>3. apply_manager_event(Shown, c) = v /\ apply_manager_event(v, o) = v
      BY <3>1, <3>2, Applied
    <3>4. F!Folded(Shown, told) = v
      <4> HIDE DEF c, o, v
      <4> QED BY <2>2, <3>3, FoldTwo
    <3>5. emits' = told \o <<CurrentJob(None)>>
      BY <1>5 DEF session_lost, EndSession
    <3> HIDE DEF told, c, o
    <3>6. F!Folded(Shown, told \o <<CurrentJob(None)>>) = [F!Folded(Shown, told) EXCEPT !.job = None]
      <4> HIDE DEF v
      <4> QED BY <2>3, <3>1, <3>2, <3>4, EndIsShown
    <3>7. Shown' = [v EXCEPT !.job = None]
      BY <1>1, <2>4, <3>4, <3>5, <3>6
    <3>8. Shown' = [pool |-> Shown.pool, connected |-> FALSE, authorized |-> None,
                    difficulty |-> Shown.difficulty, job |-> None]
      BY <3>1, <3>7 DEF View
    <3>9. now' = [pool |-> now.pool, connected |-> FALSE, authorized |-> None,
                  difficulty |-> now.difficulty, job |-> None]
      BY <2>1 DEF View, TypeOK
    <3> HIDE DEF v
    <3> QED BY <3>1, <3>8, <3>9 DEF Agree, View
  <2> QED BY <1>0, <2>1, <2>4 DEF ShownSoFar
<1>6. CASE take_command
  <2> DEFINE told == IF Head(commands) = "d" THEN <<Other, Other>> ELSE <<Other>>
  <2>1. told \in {<<Other>>, <<Other, Other>>}
    OBVIOUS
  <2>2. \/ EndSession(told) /\ now' = [now EXCEPT !.job = None]
        \/ emits' \in {<<>>, told} /\ UNCHANGED <<mgr, now, mining>>
    BY <1>6 DEF take_command
  <2> HIDE DEF told
  <2> QED BY <1>0, <1>2, <1>3, <2>1, <2>2
<1>7. CASE shutdown_observed
  BY <1>2, <1>7 DEF shutdown_observed
<1> QED BY <1>4, <1>5, <1>6, <1>7 DEF Losses

(* An event that moves on is still to come, and one that arrives was shown *)
(* already.                                                                *)
LEMMA ShownChannels ==
    ASSUME TypeOK, ShownSoFar, emit \/ receive_event \/ updater_stops
    PROVE  ShownSoFar'
<1>1. CASE emit
  <2>1. ASSUME updater = "running" PROVE Shown' = Shown
    <3>1. events' = Append(events, Head(emits)) /\ emits' = Tail(emits) /\ emits # <<>>
          /\ app' = app
      BY <1>1, <2>1 DEF emit
    <3>2. events' \o emits' = events \o emits
      BY <3>1 DEF TypeOK
    <3> QED BY <3>1, <3>2 DEF Shown
  <2>2. mgr' = mgr /\ now' = now /\ updater' = updater
    BY <1>1 DEF emit
  <2> HIDE DEF Shown
  <2> QED BY <2>1, <2>2 DEF ShownSoFar
<1>2. CASE receive_event
  <2> DEFINE s == events \o emits
  <2>1. /\ events # <<>> /\ app' = apply_manager_event(app, Head(events))
        /\ events' = Tail(events) /\ emits' = emits
        /\ mgr' = mgr /\ now' = now /\ updater' = updater
    BY <1>2 DEF receive_event, manager
  <2>2. s \in Seq(ManagerEvent) /\ s # <<>> /\ Head(s) = Head(events)
        /\ Tail(s) = Tail(events) \o emits
    BY <2>1 DEF TypeOK
  <2> HIDE DEF s
  <2>3. F!Folded(app, s) = F!Folded(apply_manager_event(app, Head(s)), Tail(s))
    BY <2>2, F!FoldedTail
  <2>4. Shown' = Shown
    BY <2>1, <2>2, <2>3 DEF Shown, s
  <2> HIDE DEF Shown
  <2> QED BY <2>1, <2>4 DEF ShownSoFar
<1>3. CASE updater_stops
  BY <1>3 DEF updater_stops, ShownSoFar, manager
<1> QED BY <1>1, <1>2, <1>3

LEMMA ShownStep == TypeOK /\ ShownSoFar /\ [Next]_vars => ShownSoFar'
<1> SUFFICES ASSUME TypeOK, ShownSoFar, [Next]_vars PROVE ShownSoFar'
  OBVIOUS
<1>1. TypeOK'
  BY TypeStep
<1>2. CASE UNCHANGED <<manager, events, app, updater>>
  <2>1. Shown' = Shown
    BY <1>2 DEF Shown, manager
  <2> HIDE DEF Shown
  <2> QED BY <1>2, <2>1 DEF ShownSoFar, manager
<1>3. interrupt \/ press \/ UiStep \/ ui_fails \/ select \/ join_tasks \/ exit \/ Orphaned
        \/ UNCHANGED vars
        => UNCHANGED <<manager, events, app, updater>>
  BY DEF interrupt, press, UiStep, no_key, key, send_command, check_shutdown, ui_fails,
     select, join_tasks, Await, exit, Orphaned, vars
<1> QED BY <1>1, <1>2, <1>3, ShownProceed, ShownEndAttempt, ShownMessages,
           ShownAtEndOfSession, ShownChannels DEF Next, Terminated

(* The dashboard never shows anything that the events under way would not  *)
(* put right: through an attempt, a session and the backoff after it, they *)
(* take what is shown to what the manager has.                             *)
THEOREM DashboardIsCurrent == Spec => []ShownIsCurrent
<1>1. Init => TypeOK /\ ShownSoFar
  BY TypeInit, ShownInit
<1>2. TypeOK /\ ShownSoFar /\ [Next]_vars => (TypeOK /\ ShownSoFar)'
  BY TypeStep, ShownStep
<1>3. TypeOK /\ ShownSoFar => ShownIsCurrent
  <2> SUFFICES ASSUME TypeOK, ShownSoFar, updater = "running", mgr \in Attempting
               PROVE  \/ Shown = now
                      \/ now.difficulty = None /\ [Shown EXCEPT !.difficulty = None] = now
    BY ShownIsFolded DEF ShownIsCurrent, Attempting
  <2>1. Shown \in View /\ Agree(Shown, now) /\ now \in View
    BY DEF ShownSoFar, TypeOK
  <2> HIDE DEF Shown
  <2>2. CASE now.difficulty = Shown.difficulty
    BY <2>1, <2>2 DEF Agree, View
  <2>3. CASE now.difficulty = None
    BY <2>1, <2>3 DEF Agree, View
  <2> QED BY <2>1, <2>2, <2>3 DEF Agree
<1> QED BY <1>1, <1>2, <1>3, PTL DEF Spec
=============================================================================
