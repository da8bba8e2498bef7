# LightMiner-Rust in TLA+

Models, model checking and proofs for the Stratum mining client in this
repository (`src/`): the environment it starts in, the manager task that talks
to the pools, the miner worker it drives and the search of its threads, the
policy that chooses a pool, the connection through a proxy, and the interface.
Paths below are relative to the root of the repository (`manager/...` stands for
`src/manager/...`).

To check a module: `tlc -config X.cfg M` with a pair of the table in
[Runs](#runs); `tlapm M.tla` for the modules named `*Proofs`.

## The system

One process, three async tasks and a pool of mining threads.

| part | code | state it keeps | operations |
|---|---|---|---|
| miner worker | `miner/mod.rs` | an atomic epoch, one blocking task per thread | `NewJob`, `Stop`, end of the command channel; in a task: hash, report, return |
| nonce search | `miner/mod.rs` (`mine_job`) | a nonce, an extranonce2 and a merkle root per thread | hash, report, step to the next nonce or extranonce2 |
| targets | `miner/mod.rs` | none | from a difficulty to a 256-bit target |
| session | `manager/session.rs`, `handshake.rs`, `state.rs` | subscription, current job, difficulty, pending submit ids, authorize id | handshake, handlers for `mining.notify`, `mining.set_difficulty`, responses and found nonces |
| share policy | `manager/submit.rs` | none | `difficulties_close`, `decide_share_submit` |
| protocol | `protocol/mod.rs` | none | what a line of the pool means |
| pool selection, reconnect loop | `manager/runner.rs` | schedule, cursor, active pool, override; failures, cooldown and the disabled flag of each pool; backoff | pick a pool, count failures, cool down, wait, switch, disable, shut down |
| interface | `ui/` | `AppState` | `run_ui` (keys, drawing), `run_state_updater` (events) |
| composition | `main.rs` | the shutdown channel | start and join the tasks |
| network | `network/mod.rs` | a socket, what was read behind the proxy's answer, a line buffer | TCP, SOCKS5, HTTP CONNECT; read a line, write a line |
| proxy detection | `network/proxy.rs` | none | which proxy the environment names for an address |
| configuration | `config.rs`, `presets.rs` | none | environment, presets and JSON to `Config` |
| job header | `miner/job.rs` | none | merkle root, header bytes |

How they interact:

- manager -> miner: `MinerCommand`s over a channel of 32; the send waits while
  it is full.
- miner -> manager: `NonceFound`s over a channel of 32; the mining thread waits
  (`blocking_send`) while it is full. One channel for the life of the program:
  it is *not* emptied between sessions.
- manager <-> pool: lines over one TCP connection per session. A share and its
  answer are matched by a request id that starts again with each connection.
- interface -> manager: `ManagerCommand`s over a channel of 32 that is read
  only inside a session. manager -> interface: events over a channel of 256.
- everyone: a watch channel for the shutdown.
- environment -> configuration -> manager, once, at the start; environment ->
  network again at each connection, for the proxy.

What is hard: mining threads that read the epoch with a relaxed load; two
bounded channels in opposite directions; results that are judged later, and on
another connection, than they were found; threads that share out 2^32 nonces
without waiting for each other, across a wrap; bytes of the pool that arrive
with those of the proxy; responses that come late, twice or
for nobody; backoff, cooldown, user commands and shutdown running against each
other. `PROJECT.json` lists these hazards one by one, each with its line and
the properties that are about it.

What makes each part correct: one job is mined at a time and an old one never
resumes (miner); no header is hashed twice and no nonce skipped, and what is
reported is what was hashed (search); a target neither refuses nor passes a hash
it should not (targets); the miner always ends up on what the session wants, shares go
to a connection whose pool uses their job, are worth submitting there and are
counted once (session); every usable pool is tried before the manager gives up
for a while, a switch is carried out, and a shutdown ends everything (reconnect
loop); whatever the environment holds, the loop gets values it can work with, a
proxy is used only where the user allows it and not passed over where one is
named, and no byte of the pool is lost or made up (start and connection).

## Modules

```
SharePolicy   Protocol                ShareLedger (abstract)     RunnerConfig
   |  \        /                          |                       /      \
Target  Session ---- INSTANCE ---- Miner  |             PoolRunner        Config   EnvValues
   |      |  \______ implements ____/|____/                 |                 \     /    |
   |      |                          |                 MCPoolRunner            Startup   Proxy
NonceSearch ------- implements ------'                 PoolRunnerProofs       /   |   \   |
   |      |                          |                              MCStartup      Client
   |   MCSession                  MCMiner                          StartupProofs --- FoldProofs
MCNonceSearch                        |                                                   |
NonceSearchProofs   SessionProofs <--INSTANCE-- MinerProofs            LightMiner --- LightMinerProofs
                          |                                                |
                  SessionShareProofs                                  MCLightMiner
```

**Miner** is `run_worker`, `mine_job` and the two channels. `epoch`, `job_ch`,
`result_ch` are the code's; a member of `tasks` is a blocking task that has not
returned, with the epoch it captured and whether it is in the loop or in
`blocking_send`. `slot` is history: the last command executed. The relaxed load
of the epoch may return any value from the task's own epoch to the current one
(`EpochLoads`): loads of one atomic never go backwards, and a newer store may
not be visible yet. Hashing is abstracted to finding a nonce or not. `Manager`
is *any* manager: it sends any commands, reads or not, drops its ends when it
likes. `OpenSpec` is the miner under it, and what is proved is proved of that.

**NonceSearch** is one `NewJob` seen from inside `mine_job`: each thread has its
`nonce`, its `counter` (`extranonce2_counter`), the counter as it is printed
(a value and a number of hex digits) and the merkle root it uses. A merkle root
is modelled by the extranonce2 it was computed with: two of them are the same
bytes iff value and length agree, and SHA-256 is taken to be injective. The code
prints the counter in at least `2 * size` digits, so past the size an odd length
does not decode and the old root stays (`merkle_root_for`). `Hash` is any
function. `hashed` is history. The manager and the epoch are as simple as the
search allows (a Stop ends it; the load of the epoch sees it at any later time);
that they are those of `Miner`, full channels and dropped ends included, is the
refinement `ImplementsMiner`.

**Target** is `difficulty_to_target_for_algorithm` in integers: the difficulty
in steps of 1e-8, ten of the units of `SharePolicy`, rounded, at least 1, at
most the largest u128; the quotient cut to 256 bits (`Width`).

**SharePolicy** has the two functions of `submit.rs`. A difficulty is an integer
number of units of 1e-9 and 1.0 is `One` units, so that both tolerances keep
their meaning; f64 rounding is abstracted.

**Protocol** has the kinds of lines and the three different readings of a
response (`is_success`, `is_authorized`, `share_accepted`).

**Session** is the manager over the life of its connections, composed with
`Miner`. A handler of the code is one action. The manager gives way inside a
handler only where it sends a command to a full channel; so an action leaves in
`outbox` the commands the handler has yet to send, and the manager does nothing
else until `send_next` has sent them. `mgr` says where `run_with_config` is. The
pool is external and sends what it likes in any order: a connection is `inbox`,
the lines not read yet, and `conn_open`. A connection's number stands for its
extranonce1, and the work in a command carries it, so that a property can say
for which connection a share was mined, which the code's `NonceFound` cannot.
`JobsOf` gives the job ids the pool uses on each connection; they may overlap.
`shares` is history. The write of a share may succeed after the pool has closed
(the close is not seen yet) or fail; then `?` makes `run_with_config` return
(`mgr = "failed"`).

**ShareLedger** is the abstract specification of the accounting: a share is
outstanding until it is accepted, rejected or given up with its session.
`Session` implements it with `outstanding <- Cardinality(pending_submit_ids)`.

**PoolRunner** (with **RunnerConfig**) is `PoolPicker` and the reconnect loop, with an opaque handshake
and session. `config` holds what the loop reads of `Config`, chosen at the start
and never written, so that one run covers several configurations. The unit of
time is 500 ms, the first backoff; a cooldown is kept as the time it still has
to run (an `Instant` in the past and no cooldown are the same to
`is_available`). The cursor is kept modulo the schedule's length: the code only
uses it so. A weighted schedule is given slot by slot: slot k belongs to the
first pool whose slots, with those before it, reach k. `Reliable` pools accept and keep connections but for one `outage`;
the others owe nothing. A share that cannot be written ends the manager here
too (`submit_fails`). The wait between a Stop and the next attempt and the
commands to the miner are in `Session`; the pool's identity is here.

**LightMiner** is the whole program in TUI mode, with the manager reduced to its
phase (`mgr`), what it knows (`now`) and the events it has yet to emit
(`emits`): each action emits what the code emits there, in its order, and waits
until the channel has taken it. `app` is the `AppState` as far as it mirrors
`now`; events it ignores are `Other`. `ui`, `updater` and `main` say where
`run_ui`, `run_state_updater` and `run_with_tui` are; a task that ends drops its
ends of the channels, and the sends into them then fail at once. `joined` is
history. The terminal is external and holds one key at a time.

The miner is one bit there: `mining` says that a job keeps threads at work and no
command sent so far ends it. A `NewJob` sets it (unless the job cannot be
hashed), a `Stop` clears it; that the worker gets there, and that threads told to
stop return, is what `Miner` and `Session` show. The threads are blocking tasks
of the runtime that `#[tokio::main]` builds, and the drop of that runtime, when
`main` returns, waits for them without limit. So `run_with_tui` returns with
`main = "done"`, and the process ends with `exit`, which needs `~mining`. A share
that cannot be written (`failed_write`) skips the Stop and the join of the
cleanup (`mgr = "failed"` instead of `"done"`); if threads are at work then, they
stay, and `Orphaned` is the process that waits for them.

**EnvValues**, **Config**, **Proxy**, **Client**, **Startup** follow the
program from `main` to the lines of a pool. `EnvValues` is what the code makes of
one variable: its value or a default, a number of at least 1, a switch, the first
of a group that is set. `Config` is `Config::from_env`: where
the pools come from (MINING_POOLS, then the presets, then MINING_POOL), their
algorithms and weights, and the numbers of the policy with their filters;
`runner_config` is what the reconnect loop makes of it, and `RunnerConfig` says
what `PoolRunner` is checked and proved for. `Proxy` is `detect_proxy_for`, a
function of the environment and the address: off, explicit, loopback, then the
standard variables. `Client` is one connection, byte by byte where bytes matter:
`wire` is cut into reads of any size; `buf` is the answer to CONNECT so far,
`prefix` what was read behind it (`PrebufferedStream`), `buffered` and `partial`
are the line reader's. A byte is CR, LF or one of a few others, and a status
line is its code. What a proxy answers, what a pool sends and whether it closes
are external. `Startup` composes them: one environment, one attempt.

**FoldProofs** is about `FoldLeft` of the community modules with any operator;
`LightMinerProofs` and `StartupProofs` instantiate it with the operator of each
fold.

`MCMiner`, `MCNonceSearch`, `MCSession`, `MCPoolRunner`, `MCStartup`,
`MCLightMiner` hold the instances for TLC.

In each module the operators whose comment starts with "Mutant:" are wrong
versions of the definition that follows them. They are used nowhere; they
record, for each property, a plausible bug it would catch.

## Runs

| run | module, cfg | question | bounds |
|---|---|---|---|
| miner | MCMiner, MCMiner | safety and liveness of the worker under any manager | 2 threads, 2 good jobs and 1 that cannot be hashed, 3 commands, channels of 2 and 1 |
| mining | MCNonceSearch, MCNonceSearch | does the search of one job hash every header once; does what it reports verify; are the targets tight; does it implement Miner | 3 threads, 4 nonces, extranonce2 counters 0..4 of which 4 is past the size, base 2, 42 difficulties of two algorithms, channels of 1 |
| sessions | MCSession, MCSession | does anything leak from one connection to the next, job ids used again; is the miner where the manager wants it, on work that can be submitted; are shares counted as the ledger says | 2 connections, 4 lines, job ids {j1, j2} on the first and {j2} on the second, responses of every kind, difficulties 2 and 12 units, channels of 1 |
| session_liveness | MCSession, MCSession_liveness | does a shutdown complete, do the threads end, does the current job arrive; is each step one of the miner under some manager | 1 connection, 3 lines, channels of 1 |
| pools | MCPoolRunner, MCPoolRunner | pool choice, switches, disabling; does the manager reach a session, carry out a switch, end | 3 pools, 1 reliable, 5 configurations, 2 user commands |
| startup | MCStartup, MCStartup | does every environment give a configuration that PoolRunner is verified for, and a proxy where one is named, none where none is allowed; are the lines the pool's | 480 environments, 7 proxy answers, 3 streams, reads of up to 5 bytes, a line buffer of 2 |
| program | MCLightMiner, MCLightMiner | does the dashboard follow the manager; does everything end when one part does, or on Q, the mining threads included | 1 pool, 1 job, 1 difficulty, keys Q, p and c, channels of 1 |
| failed_write | MCSession, MCSession_failed_write | *violated* | 1 connection, 2 lines |
| all_disabled | MCPoolRunner, MCPoolRunner_all_disabled | *violated* | 2 pools, 3 commands |
| dead_pool | MCPoolRunner, MCPoolRunner_dead_pool | *violated* | 2 pools, the default times |
| orphans | MCLightMiner, MCLightMiner_orphans | *violated* | the key Q |
| bare_connect | MCStartup, MCStartup_bare_connect | *violated* | an HTTP proxy that grants with a status line alone |

Why the bounds are enough. Three commands give two old epochs beside the
current one, and a result channel of one slot lets two threads of different
epochs wait for the same slot. Four lines over two connections are a subscribe
response and a job on each, or a job and a difficulty change, with a share of
the first connection still in the result channel; an id that both connections
use and one that only the first does make such a share pass the test on the job
id or fail it; a channel of one slot is full as soon as the worker lags by one
command, which with 32 slots takes longer but is the same situation. Every kind of answer to every id in use (`MaxRequestId`)
allows an accepted, a rejected, a repeated and an unsolicited one. With three
pools there is a pool besides the one left and the one chosen, and with the
weights 1, 2, 1 a pool has two slots; a threshold of 2 and a cooldown longer than
the backoff let failures, waits and cooldowns overlap. Three threads do not
divide four nonces, as a number of threads that is no power of two does not
divide 2^32: the threads trade strides at each wrap, and over five extranonce2
each thread has had each of them; base 2 and size 1 put the end of the size at
4, so that the odd length that follows it is reached. The 42 difficulties run
from below 0 over the rounding steps past the largest (`MaxScaled`) and to
targets that overflow. The environments are those that differ in one group of
variables (policy, sources of pools, proxies), each with every combination of
values that are missing, wrong, zero or right; a chunk of 5 bytes and a buffer
of 2 cut every answer and stream used at every place. `LightMiner` needs no
counter: its data are a few
values and its channels bounded; with one slot every emit and every send can
find its channel full, which with 256 and 32 slots takes longer but is the same
situation, and one pool, reached again and again, is enough for what is shown of
an older connection. The bound of each model is a constant
(`MaxCommands`, `MaxSessions`, `MaxLines`, `MaxRequestId`, `InboxCap`,
`MaxCounter`) and appears in a guard. `SlotCap`, 128 in the code, is 4 in `pools`:
the weights there reach it and do not pass it, as weights in the code seldom do.

Deadlock is checked in every run but those of `Startup`: `Terminated` (in
`NonceSearch` `BeyondBound`) allows the stutter of a program that has ended,
nothing else. In `Session` it also needs the mining threads to be gone. In
`LightMiner` there is `Orphaned` beside it: threads that nobody stops are hashing,
so the system has not stopped although none of its modelled parts takes a step.
`Startup` really may stop: an attempt ends in a connection to a pool that sends
nothing and does not close.

### Fairness

- The runtime polls a task that is ready: weak fairness of the worker, of
  `send_next`, of the end of a session and of the steps of the reconnect loop.
- A mining thread is scheduled and a store to the epoch becomes visible to a
  thread that keeps loading it, but not at once: strong fairness of
  `task_stop`, weak fairness of a send that has room.
- `tokio::select!` picks among ready branches at random: a shutdown or a command
  that stays ready is taken in the end although other branches are ready again
  and again: strong fairness.
- A connection attempt ends. The wait for the subscribe response has a deadline
  in the code; the TCP connect ends when the operating system gives up. A proxy
  that accepts and says nothing, and a write that never completes, are outside
  this assumption: nothing in the code bounds them.
- In `LightMiner` each task has a thread of its own when it is ready. `run_ui`
  blocks its thread in `event::poll` for up to 100 ms and seldom gives way, so
  this takes a runtime with at least two worker threads.
- Time passes (`tick`).
- The pool, the user and the idle timer owe nothing. `LeavesFlakyPool` alone
  assumes that a pool that is not reliable loses its sessions.

### What the checks found

- **failed_write.** When the pool has closed and a nonce is read before the
  close, the failed write of the share ends the manager
  (`manager/runner.rs:473`), although `reconnect` is documented as
  "Automatically reconnect when the pool disconnects."
- **orphans.** The same return skips the cleanup. No Stop is sent, the worker
  leaves when its channel is closed without bumping the epoch
  (`miner/mod.rs:203-206`), `mine_job` ignores that it cannot report (`:291`), so
  the threads of the last job hash for ever. `run_with_tui` returns and restores
  the terminal, but the drop of the runtime (`main.rs:5`) waits for them: the
  process stays, also after Q (README.md:38: "`Q` or `Esc` - Quit").
  `EndOfOneEndsAll` and `QuitEnds` say so: they promise the end of the process
  but for this case, in which they promise the return of `run_with_tui` (`Ended`).
- **all_disabled.** Commands are read only in a session, and disabling the pool
  in use clears `active_idx`: `D` never enables a pool again, and with all pools
  disabled nothing is read any more.
- **dead_pool.** With the default times the cooldown a failure starts is over
  when the backoff is, and failover returns to its dead active pool for ever.
- **bare_connect.** `first_status_line` looks for a CRLF in what comes before
  the CRLFCRLF (`network/mod.rs:223`). An answer of a status line alone, which
  many proxies give, has none there: the code is 0 and the attempt fails as
  "HTTP CONNECT failed".

More departures were met, which the runs above leave out by their choice
of instances or of what is modelled.

- A share left in the result channel when a connection ends is submitted on the
  next one if the pool uses the same job id there: the job id and the difficulty
  are the only tests (`manager/session.rs:230`), although the extranonce1 has
  changed and the header is another one (ROADMAP.md:77: "Submit only work that
  still matches what the pool is asking for"). That a share goes to the
  connection it was mined on (`sid = en1`) is therefore false, and the instance of
  `sessions`, with an id used again, reaches a share for which it is. `OwnJob` is what
  the test on the job id does give: such a share goes to no connection whose pool
  does not use that id.
- In each group of proxy variables only the first that is set is looked at
  (`network/proxy.rs:63`): a wrong ALL_PROXY hides a right all_proxy and the pool
  is connected to directly, against README.md:160-162 ("will automatically detect
  and use a proxy when available", "and lowercase variants"). The environments of
  `startup` include it; `ProxyFollowsEnvironment` is about the first one set of
  each group (`FirstParses`).
- In raw mode Ctrl-C is a key event with the code `c`, which clears the logs
  (`ui/mod.rs:509`); no SIGINT is sent, so the program goes on. ROADMAP.md:40
  promises "Graceful shutdown on `Q/Esc` and Ctrl-C." `QuitEnds` is about Q.
- A change of difficulty sends the job again (`manager/session.rs:196`), which
  starts over at nonce 0 and extranonce2 0: shares already submitted are found
  and submitted again. `NoHeaderTwice` is about one `NewJob`.
- An extranonce2 of size 0 prints as one digit, which does not decode: nothing is
  mined, without an error. Past the size the digits grow; an odd length keeps the
  old root, whose headers the thread hashes again under a wrong extranonce2, and
  an even one is longer than the pool asked for. `NoHeaderTwice`,
  `NoNonceSkipped` and `ReportsVerify` end at the size (`WithinSize`).
- A difficulty above about 3.4e30 saturates the fixed point (`as u128`), so that its
  target is that of 3.4e30 (`miner/mod.rs:116`): a share found for it is reported
  and need not have the difficulty. `ReportsVerify` leaves this case out
  (`MaxScaled`).
- The target of a scrypt difficulty below 2^-16 has more than 256 bits and loses
  the high ones (`miner/mod.rs:121`): `TargetIsTight` and `ReportsVerify` leave it
  out (`Fits`).
- The header's fields are the bytes of the pool's hex in the order they come in,
  with `prev_hash` turned around as a whole (`miner/job.rs:72-109`); Stratum pools
  usually send the words of `prev_hash` swapped and the other fields in big-endian
  order. The models do not say in which order the bytes are.
- A proxy URL with the default port of its scheme (`http://host:80`) loses it:
  the url crate does not report such a port, and 8080 is used instead
  (`network/proxy.rs:127`). `Proxy` models this; `ProxyFollowsEnvironment` is
  about which variable is used.
- A `MINING_PROXY` that does not parse is passed over, so that the connection may
  be direct or through another proxy.
- A pools variable without a usable entry counts as none (README.md:208 says what
  is used without it). With a preset file all of its presets become pools, and
  MINING_PRESET only looks among the embedded ones, so the example of README.md:88-91
  does not pick one from the file.
- A preset or pool whose coin is not known and whose algorithm is not given is
  mined with SHA-256d (`config.rs:69`).
- A cooldown of very many seconds overflows the addition to an `Instant`
  (`manager/runner.rs:311`), which panics; the models' numbers do not overflow.

- The two tolerances of `submit.rs` differ: with `Difficulties = {4, 6}` and
  `One = 2` a rise from 4 to 6 neither restarts the job nor lets its shares
  pass, against `WorkInHandIsSubmittable`.
- The cap of a weighted schedule drops pools for good: weights 2 and 1 with
  `SlotCap = 2` violate `SleepsOnlyWithoutPools`.
- A switch with a weighted schedule may reconnect to the same pool, and a switch
  with `reconnect` off ends the program: `SwitchLeavesPool` and
  `SwitchIsCarriedOut` are stated without these cases.
- Failover never leaves a pool that completes the handshake and drops the
  session: `LeavesFlakyPool` is stated without failover.
- While no pool can be connected to, nobody reads the command channel; once it
  is full, the next `p`, `P` or `D` leaves `run_ui` in its send and Q is not
  read any more. `QuitEnds` is stated for an interface that gets out of its
  sends; without the premise the run `program` refutes it.
- After `D` or a switch no `Connected(false)` is sent. Until the next attempt
  this agrees with the connection, which the manager drops only after the
  backoff; but if it then finds all pools cooling down (or disabled), the
  dashboard shows "Connected" for as long as that lasts. `ShownIsCurrent` leaves
  out the phase `cooling`.
- A new connection starts at difficulty 1.0 without an event: the dashboard
  shows the last connection's difficulty until the pool sets one.
  `ShownIsCurrent` compares the difficulty only from then on.

## Proofs

TLAPS proves these for every value of the constants that the named assumptions
of the modules allow (any number of threads, pools' replies, jobs, connections,
any capacities of at least one).

| module | theorem | property |
|---|---|---|
| MinerProofs | `TypeCorrect`, `OneJobAtATime` | `[]TypeOK`, `[]OneJobPerEpoch` |
| | `CurrentJobIsKept`, `OldJobsStayGone` | the two action properties |
| SessionProofs | `TypeCorrect` | `[](TypeOK /\ PhaseInv)` |
| | `MinerIsDrivenByManager` | the composition implements `Miner!OpenSpec` |
| | `MinerFollows` | `[]MinerFollowsManager` |
| SessionShareProofs | `PendingIsOwn` | `[]PendingIsOfThisSession` |
| | `LedgerIsImplemented`, `SharesAreConserved` | `Session` implements `ShareLedger`, hence conservation |
| | `FirstAuthorizeIsFinal` | `FirstAuthorizeWins` |
| | `SharesKeepToTheirJobs` | `[]OwnJob` |
| | `WorkIsWorthwhile` | `[]WorkInHandIsSubmittable`, if the tolerances agree (`TolerancesAgree`) |
| NonceSearchProofs | `TypeCorrect` | `[]TypeOK` |
| | `HeadersAreNew`, `NoneIsSkipped` | `[]NoHeaderTwice`, `[]NoNonceSkipped` |
| | `ReportsAreVerified` | `[]ReportsVerify` |
| | `TargetsFit`, `ToleranceIsOneStep` | `[]TargetIsTight`, `[]SubmittedShareIsClose` |
| | `SearchImplementsMiner` | `NonceSearch` implements `Miner` |
| PoolRunnerProofs | `TypeCorrect`, `SessionsAreOnActivePool`, `OverridesStayAvailable` | the three invariants |
| | `SleepsWithoutPools` | `SleepsOnlyWithoutPools`, if every pool has a slot (`AllScheduled`, which `WithinTheCap` proves of weights within the cap) |
| | `SwitchesLeave` | `SwitchLeavesPool` |
| LightMinerProofs | `TypeCorrect` | `[]TypeOK` |
| | `DashboardIsCurrent`, `EachTaskIsJoinedOnce` | `[]ShownIsCurrent`, `[]JoinsEachTaskOnce` |
| StartupProofs | `RunnerIsSuited`, `ProxyIsTheUsers` | `[]ConfigSuitsRunner`, `[]ProxyFollowsEnvironment` |
| | `TunnelIsGranted` | `[]TunnelFollowsAnswer`, if grants have a field (`GrantsHaveFields`) |
| | `LinesAreKept` | `[]LinesAreThePools` |

FoldProofs has no theorem of the system: its lemmas say what a fold returns for
any operator (`FoldedAppend`, `FoldedConcat`, `FoldedTail`, `FoldedInduction`,
`FoldedWithin`), for the proofs about events, entries and bytes.

Two theorems have a hypothesis, and each is about what is outside the program.
`TolerancesAgree` is about the pool's
difficulties: those that `difficulties_close` takes for one another are also
within the tolerance of `decide_share_submit`; without it the property is false
(see the departures above). `MCSession` states it as an `ASSUME`, so TLC checks
that the instances of the runs satisfy it. `GrantsHaveFields` is about the
proxy, and the run `bare_connect` shows what happens without it; the answers of
the run `startup` satisfy it.

The assumptions on constants: `SearchAssumption` says that the hash of a header
is a number, `ClientAssumption` that streams and answers are sequences and that a
proxy which grants the tunnel sends nothing of its own behind the header,
`ProxyAssumption` that `None` is not a proxy, `StartupAssumption` that the
variables with entries hold lists and those of proxies the values `Proxy` tells
apart. TLC evaluates them in every run.

The arguments.

- *Miner.* `OneJobPerEpoch` is inductive with `TypeOK`: a command makes an epoch
  larger than that of every task, and tasks are only made with it. The action
  properties follow from it step by step. All is proved of `OpenSpec`, so it
  can be used for the manager of `Session`.
- *Session types.* `TypeOK` is not inductive: that a handler finds a connection
  to send on, that the authorize id is 2 and the request ids start at 3, that
  only some phases have commands to send, depends on where the manager is.
  `PhaseInv` says so. The miner's half of `TypeOK` is not proved again: each step
  of the composition is a step of the miner under some manager
  (`DrivesMiner`), and the step lemma of `MinerProofs` applies.
- *MinerFollowsManager* is about `LastCommand`, which is in the outbox, the
  channel or the slot: a command travels from one to the next
  (`LastCommandTravels`), and only the handlers that change the current job or
  the phase add one.
- *Shares.* `ShareInv` adds that the shares of a connection have ids below
  `request_id`: so a share that is written is a new one, and its id is not
  pending; the cardinalities of the refinement then change by exactly one.
- *FirstAuthorizeWins* needs `AuthorizeInv`: once a response has counted, no
  authorize id is awaited.
- *OwnJob* rests on `WorkInv`: whatever is under way, in the inbox, in the
  outbox, in the command channel, in a mining task or in the result channel,
  is a job of its own connection. This is the type invariant of the miner again,
  with `Work` restricted to such work: the miner is instantiated a second time.
  A share that is written has the job id of the session's current job besides,
  which is one of its connection's. That the two connections are the same does
  not follow, and is false with an id that is used again.
- *WorkInHandIsSubmittable* needs `MinesClose`: the difficulty of the last job
  sent is close to the one the session has stored. A change that is not close
  sends the job again, at the new difficulty; one that is close leaves the job as
  it is, possibly several times in a row, which is why the hypothesis asks that
  close difficulties stay close in a chain.
- *Search.* The nonces of all extranonce2 are laid out on one line (`Place`), on
  which a thread visits every `NThreads`-th position from its index on: the wrap
  at 2^32 is no break in that stride, since the next extranonce2 begins where the
  last one ended. The invariant says that a thread is on its stride (`Strides`),
  that what it has passed is hashed (`Covered`) and that what is hashed was passed
  by the thread of that stride (`Behind`). No position is on two strides and every
  position is on one (`OneStride`, `SomeStride`), so a thread never meets a header
  of its own or another's past, and once all threads have left an extranonce2
  they have passed all its positions. `Behind` needs that all threads are within
  the size: beyond it a root is used for more than one counter.
- *Reports.* A share is hashed with the root its thread holds but reported with
  the extranonce2 as printed; within the size they are the same (`Roots`).
  `SharesInHand` adds that only work that can be mined is, and that a thread
  waiting to report is still at the header that met the target. That a hash which meets the
  target has the difficulty is the tightness of the target
  (`SharesHaveDifficulty`).
- *Search implements Miner.* The mapping names the commands, the epoch, the slot,
  the tasks and the reports of `Miner` in terms of the search (`MinerTasks`,
  `MinerReports`); a lemma for each action shows which step of `Miner` it is, a
  miss being a stutter. It needs that no thread is at work before the command is
  taken (`Started`) and that a result channel the manager has dropped stays
  empty (`Drained`).
- *Targets.* Two facts of integer division: the scaled difficulty is within half a
  step of the difficulty, the quotient within one of its ratio.
- *Pools.* The schedule is a non-empty sequence of pools, whatever the weights
  and the cap (`ScheduleType`, by the least-number principle). What `pick_next`
  and `pick_relative` return is available (`Picks`, `PicksRelative`). The
  invariant adds that an override waits only outside of attempts and sessions
  (`OverrideWaits`), so that between its choice and its use no pool is disabled
  and no failure counted, and that unsupported pools are disabled.
  `SleepsWithoutPools` has a premise because the cap can leave a pool without a
  slot; it holds unless the weights together pass the cap (`WithinTheCap`: each
  pool takes at least one slot, so that the first pool whose slots reach its last
  slot is the pool itself).
- *Dashboard.* `ShownIsCurrent` is about a fold of the events under way, oldest
  first. An action of the manager adds events at the end (`FoldedConcat`), the
  updater takes one at the front (`FoldedTail`), and between the two the fold does
  not change. `ShownSoFar` adds what the dashboard shows between two attempts (no
  job), from which the next attempt starts.
- *Joins.* The place of `run_with_tui` and the task that ended first say which
  handles have been joined (`JoinsSoFar`).
- *Configuration.* The pools of each source are a fold over its entries; each
  entry keeps a positive weight (`FoldedWithin`), so `Weighed` holds of the list
  whatever the number of entries. `refuses` leaves only lists with a pool that can
  be mined for.
- *Proxy.* `Detected`: the proxy in use is the one `detect_proxy_for` returned
  for the address, for the environment never changes. A group whose first
  variable set holds a proxy yields one (`FirstParses`), whatever the others hold.
- *Tunnel.* While the answer is read, what was read and what is on its way are
  together what the proxy and the pool sent, and no header has ended yet
  (`Relayed`). The first match of CRLFCRLF stays the first when more bytes follow
  (`FirstMatchStays`): so the header found in a piece is that of the answer
  (`SameHeader`), and its status is the answer's first.
- *Lines.* The invariant (`Reading`) is that the lines so far, continued with the
  line begun, what is buffered, what was kept behind the proxy's answer and what
  is on its way, are the split of what the pool sent: each read moves bytes from
  one of these to the next, and `take_line` is as many steps of the split as it
  takes bytes (`TakeToFeed`, `TakeWithoutFeed`). The grant is the step that puts
  the rest of the answer's last read in front of the socket
  (`RemainderIsThePools`).

Only model-checked: the liveness properties and those that only hold under
fairness (the prover does not do fairness), and `OldJobsQuiesce`.

## Not modelled, and why

- The bytes of a header and their order, the coinbase, SHA-256 and scrypt
  (`miner/job.rs`): byte computations; a merkle root is the extranonce2 it
  depends on, a hash any function of root and nonce.
- The rounding of f64 in difficulties; hash counters, rates and log texts.
- Drawing; log mode, which only runs the manager until Ctrl-C.
- How the runtime shares its threads: every task and every mining thread has one.
- The SOCKS5 handshake (it succeeds or fails), TLS, the credentials of a proxy, the
  system proxy of macOS; writes, other than the failing one of a share.
- The splitting of strings into entries, JSON, names and credentials of pools,
  the number of threads and the timeouts of a session.

## Plan

1. *StartupProofs*: that the configuration of a start satisfies the assumptions of
   `PoolRunner`, hence its theorems hold from `main` on.
2. *SessionShareProofs*: the search of `NonceSearch` under the manager of
   `Session`, through the refinement of `Miner`.
3. *Session*: the extranonce1 in the test of `handle_nonce_found`, as soon as the
   code has one: then `sid = en1` can replace `OwnJob`.
4. *LightMiner*: log mode, with the same mining threads and the drop of its only
   shutdown sender.
