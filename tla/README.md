# Formal verification of BizonVR Operator

BizonVR Operator runs VR clubs: a Cloud API with its operator pages, one Local
Hub per club that drives the headsets over ADB, and an agent app on every
headset. This directory holds TLA+ modules of the parts whose correctness
depends on the order of events, TLC configurations that check them on small
instances, and TLAPS proofs for every size. Paths below are relative to the
repository's root.

## 1. Inventory

| Component | State | Operations | Hard behaviour | What makes it correct |
|---|---|---|---|---|
| Command queue of the Cloud (`src/backend/services/command-service.ts`, `hub-sync-service.ts`, `db/command-policy.ts`) | `device_commands`, `device_command_events`, `device_command_tombstones` | create, cancel, claim (lease and token) in `/sync`, status report | leases that expire, repeated and late reports, cancellation beside execution | one verdict per command, per-headset order, agreement with the Hub |
| Command execution of the Hub (`local-hub/command-reliability.js`, `cloud/sync.js`, `commands/worker.js`, `commands/reconciliation.js`, `cloud/client.js`) | SQLite `command_execution` and `result_outbox`; promises under way; per-device lock | poll, journal, dispatch, record, flush, recover | crash at any await, one exception ending a sync for all, outbox rows changing while they are sent | no effect twice, no two handlers on a headset, no result lost |
| Sessions (`session-service.ts`, `session-state.ts`, side effects in `command-service.ts` 263-620, heartbeat part of `hub-sync-service.ts`) | `sessions`, `session_devices`, `session_events` | create, extend, pause, resume, switch, finish, expiry timer, command outcomes, heartbeats | outcomes that arrive after the next action, timer beside operator, several headsets in a session | session and headset statuses agree, a pending operation ends, no headset in two sessions |
| Device synchronisation (`hub-sync-service.ts`, `repositories/devices.ts`) | `devices`, connectivity, aliases | upsert by identity, merge of duplicates | one headset under several serials | one row per headset |
| Device service, authorization, authentication (`device-service.ts`, `authorization.ts`, `agent-security.ts`, `auth.ts`, middleware) | – (derived) | scope checks, agent provisioning | – | nobody acts outside of his organisation and clubs |
| Catalog, organisations, audit | rows | single statements | – | – |
| Database (`db/migrations.ts`, `db/json.ts`, SQL files) | schema version | migrations in order | a failure half way | every migration once, in order |
| Cast (`local-hub/cast-manager.js`, `cast/service.js`) | registry, producers, viewers, child processes, timers | attach, publish, stop, fail, fall back, recover | callbacks of a process that was replaced, stop during an await | one owned producer per headset, every viewer served or sent away |
| Stream URLs and encoder arguments (`local-hub/streaming.js`, `src/backend/cast.ts`, `src/shared/cast-config.js`) | – | pure functions | – | – |
| ADB supervision (`adb-supervisor.js`, `adb-process-runner.js`, `adb-command-executor.js`, `adb-recovery-adapter.js`) | per-device health, generation, flights, back-off | probe, recover, retry, run | a probe that answers after the route changed | a stale answer changes nothing |
| Device routing (`devices/routing.js`, `route-selection.js`) | remembered wireless routes, ignored headsets | list, reconnect, resolve | route of a headset changes between list and use | the serial used belongs to the headset meant |
| Dispatcher (`commands/dispatcher.js`, `apk-security.js`) | – | one ADB script per command type | – | allow-listed commands only |
| Agent endpoint (`local-hub/agent/*`) | credentials, latest heartbeat and timestamp per agent | accept, prune, provision, start | repeated or reordered requests, a rotation that fails half-way | nothing replayed, Hub and Cloud agree on the credential, a provisioned agent is heard |
| Hub process (`hub.js`, `config.js`, `lifecycle/shutdown.js`) | – | start, stop | – | – |
| Quest agents (`quest-agent`, `quest-agent-spatial-spike`, Kotlin) | session state, timers, preferences | intents, heartbeat, delayed callbacks | a callback of the previous state | state and remaining time agree |
| Operator pages (`src/pages`, `src/lib/operatorStatus.ts`, `sessionUi.ts`) | – | render | – | what is shown is what is stored |
| Server wiring, soak scripts | – | – | – | – |

How they interact: the pages call the Cloud over HTTP. The Cloud never calls a
Hub; a Hub polls `POST /api/hubs/:id/sync` (reported devices and heartbeats
in, commands out) and reports each status with `POST /api/commands/:id/status`.
A Hub drives headsets through ADB child processes; an agent posts heartbeats to
its Hub, which forwards them with the next sync. Session operations create
commands; outcomes of commands and heartbeats change sessions.

## 2. Plan

Order of the modules, the most important behaviour first.

1. `CommandContract`, `CommandPipeline` with `MCCommandPipeline`; its proofs in
   `CommandPipelineProofs`, `CommandAgreementProofs` and
   `CommandContractProofs`: commands from creation to verdict (done).
2. `SessionContract`, `SessionLifecycle` with `MCSessionLifecycle`; its proofs in
   `SessionLifecycleProofs` and `SessionStatusProofs`: session and
   session-device statuses, the commands the operations issue, side effects of
   outcomes, heartbeats, expiry, and the life of a headset in a session (done).
3. `CastManager` with `MCCastManager` and `CastManagerProofs`: producer
   processes, viewers, fallback and recovery (done).
4. `AdbSupervisor` with `MCAdbSupervisor` and `AdbSupervisorProofs`: flights,
   generations and recovery of one headset, the refreshes that tell it of
   routes, and a command with its ADB process (done).
5. `AgentEndpoint` with `MCAgentEndpoint` and `AgentEndpointProofs`: credentials,
   heartbeats, provisioning and start of the agent (done).
6. `AgentSession`: the state machine of the headset's launcher with its delayed
   callbacks (section 8 says what it would show).
7. Algorithms against reference definitions: route selection, merge of aliases,
   connection status, scope checks, migrations.

Theorems. Proved: types, one effect per command, exclusion by the lock, the
queue of a headset, agreement of Cloud and Hub, and that an acknowledged result
is settled; for one headset the order of effects and the refinement of
`CommandContract`; types, one session per headset, the irrevocable stop, that a
pending operation has its command, that a headset serves its session, that an
open session has a headset, that a finished headset is clean, that the aggregate
follows the rows, and the refinement of `SessionContract`; for sessions of one
headset agreement of the statuses, clean completion and the pause that holds;
types, the one producer, silence of replaced ones, progress and the viewers of a
cast; types, the supervisor's mark, single execution and truthful success;
types, no replay and truthful verdicts of rotations of the agent's endpoint. Every safety property that a passing
run checks is the statement of a theorem. Not proved: liveness, and the
statements about one headset for more of them (sections 3 and 4 say which of
them fail there).

## 3. The command pipeline

`CommandPipeline.tla` composes Cloud, Hub, network and headset.

| State | Code |
|---|---|
| `cmd` | rows of `device_commands`: status, `attempt` (stands for the claim token, which is drawn anew exactly when `attempt` grows), `claimed_by`, whether `lease_until` is in the future, result hash |
| `journal` | rows of the Hub's `command_execution`: state and result hash |
| `outbox` | rows of the Hub's `result_outbox` |
| `phase`, `batch`, `tasks` | where `syncWithCloud` stands, the commands it has not dispatched, the activations of `processCommand` and the await each of them is in |
| `lockq` | the chain of promises behind a device lock of `commands/worker.js` |
| `calls` | `POST /status` requests under way; one that is no longer awaited may arrive at any time or never |
| `applied` | how often a command took effect on its headset |
| `used` | how much of each bound of the model has been used |

A step is what the single-threaded Hub does between two awaits, one request
handler of the Cloud (SQLite makes it atomic), or an event of the environment.
`processCommand` is the chain `Dispatch`, `NoRoute` or `AnnounceRunning`,
`StartExec`, `ApplyEffect`, `ExecSucceeds`/`ExecFails`/`ExecUnknown`,
`RecordSuccess`/`RecordFailure`, `FlushSend`, `TaskDone`, or, when the journal
asks for it, `ProbeSucceeds`/`ProbeFails`. `updateCommandStatus` is
`UpdateCommandStatus`, run by `Deliver` and `DeliverUnanswered`.

Abstractions. Time: a lease is live or expired; the lease of a Hub that still
polls expires only if it stalls (bounded by `MaxExpiries`), that of a dead
process at any time. `outcome_state` is derived (`timeout` is always
`unknown`). `sent_to_hub`, `received` and the journal's `cancelled` are left
out: nothing leaves a row in the first and the last, and `recordReceived` and
`claim` run without an await between them. Retries below `dispatch` belong to
one execution. A probe sees the effect only if there was one; "unk2" stands for
every way in which reconciliation fails. Commands are immutable, so the
integrity violation cannot occur. The attempt budget of the claim concerns
commands that were never claimed, whose attempt is 0: it never bites. Which
outbox rows are past their back-off is left open. Pruning after 30 days is left
out. A known failure (`success: false` with neither `timedOut` nor `unknown`,
`sync.js:123-124`) does not mean that nothing happened: the commands of several
ADB steps, `Compound`, return the failure of a later step once an earlier one is
done (`dispatcher.js:92-156`: START, PAUSE, RESUME, SWITCH, END, INSTALL_APK), and
one that is not dangerous may have timed out. Only a dangerous command of one step
is `Conclusive`: its failure comes before its effect, or is unknown. The faulty
variants in the module (`RunsAgain`, `NoQueue`, ...) are not
used by the specification; each names a bug that one of the properties notices.

`CommandContract.tla` is what the pipeline promises: the verdict of a command
is given once, except that an unknown one may become a success, a success means
one effect, and an effect happens at most once; a failure denies the effect of a
conclusive command, and says nothing of the others'. `ImplementsContract` is the
refinement.

### Runs

| Run | Shows | Bounds |
|---|---|---|
| `pipeline_one_headset` | types, one effect, agreement, queue, order of effects, refinement | two commands of one headset, both dangerous, one of them reconcilable and of several steps, three claims each, and one each of crash, fault, expired lease, cancellation, unknown outcome |
| `pipeline_two_headsets` | the device lock and the acknowledgement of results, where one headset's exception ends the other's sync, handlers of one headset coexist and rows change while they are sent | two commands on one headset and one on another, one of them FORGET_DEVICE, an expired lease, a cancellation and an unknown outcome |
| `pipeline_settles` | every command is settled although two requests or answers are lost | two commands, one of them FORGET_DEVICE, no crash |
| `pipeline_restart_recovers` | no open command stays `running` in the journal of a Hub that does not run it | one crash, one expired lease, one unknown outcome, no lost answers |
| `pipeline_unreconciled` (violation) | a reconciled success never becomes the Cloud's verdict | |

Two commands are enough for the queue and the lock of a headset (both relate
two commands), the third puts a handler of another headset beside them; each
kind of event occurs at every point of a behaviour, once or twice.
`DeliveredIsSettled` is checked with two headsets because with one no row can
change on the wire: a sync ends only when its own commands have ended. It allows
the one difference that the code makes there: a timeout was sent, and a success
had replaced it in the row when the answer came (`pipeline_lost_result`, below).
`EffectsInOrder` is checked with one headset because it holds of one only (below).
That every result arrives (`ResultReachesCloud`) is not claimed: a renewed claim
refutes it (`pipeline_stale_outbox_token`, below), and without renewed claims it
says no more than `EventuallySettled`. `RestartRecovers` needs a poll whose answer
arrives and an instance id drawn anew (`pipeline_lost_recovery`, below).

Fairness (`Fairness`): the poll timer fires for ever; every await of
`processCommand` ends, because ADB processes and requests have timeouts; an
awaited request is answered; a delivery loop runs over a finite snapshot of
rows whose back-off ends, so a row that waits is sent by some loop, and
`Dispatch`, `TaskDone` and `ProbeSucceeds` need strong fairness because other
loops may disable them for a while; leases of dead processes run out. The
operator, the faults and late requests are not fair.

### Disagreements between code and documentation

`PROJECT.json` lists the one that `pipeline_unreconciled` shows. Three more have a
configuration here that ends in the counterexample
(`tlc -config <name>.cfg MCCommandPipeline.tla`):

| Configuration | Violated | What happens |
|---|---|---|
| `pipeline_lost_recovery` | `RestartRecovers` | `recovery_required` is set only by the poll that renews an expired claim (`hub-sync-service.ts:321`). If its answer is lost, the next poll finds the claim live and owned by the same instance, `claim()` answers `in_flight` (`command-reliability.js:132`), and nobody runs or probes the command, which blocks its headset for ever (`docs/device-command-reliability.md:43`) |
| `pipeline_lost_result` | `DeliveredIsRecorded` | `markOutboxDelivered` marks the row by command id after the await (`command-reliability.js:237`). If `complete()` has replaced the timeout by a success meanwhile, the success counts as delivered although only the timeout was sent (`:38` of that document) |
| `pipeline_stale_outbox_token` | `ResultReachesCloud` | a result row keeps the token it was written with (`cloud/sync.js:33`); when the lease has expired the next sync renews the token before the flush, the report is rejected as stale, and the journal answers `already_done` without refreshing the row (`:45`) |

TLC shows five more with the same module:

- if the answer to the success of FORGET_DEVICE is lost, the repeated report gets
  404 and waits in the outbox for ever: the route looks the command up
  (`src/backend/http/routes/commands.ts:27`) before `updateCommandStatus` reaches
  its tombstone branch, and the row is gone with its headset
  (`docs/device-command-reliability.md:20`).
- `cancelDeviceCommand` labels a command in `accepted_by_hub` cancelled while the
  Hub may already execute it, and the next command of the headset is then handed
  out; if a sync has ended early, it even takes effect first
  (`docs/device-command-reliability.md:57` and `:26`).
- `fail()` writes journal and outbox in two statements without a transaction; a
  crash between them leaves a completed command without a result to deliver
  (`docs/device-command-reliability.md:34`).
- after a crash between `markEffectApplied` and `complete` the reconciler's
  result has another hash than the journaled one, so that `complete` throws and
  the command is neither reported nor marked unknown (`:44`).
- with `HUB_INSTANCE_ID` fixed in the environment, `pipeline_lost_recovery`'s
  behaviour needs no lost answer.

Besides, an unknown outcome of a command that cannot be probed holds its
headset's queue for ever: nothing resolves it, and cancelling it is refused.

### Proofs

`CommandPipelineProofs.tla` proves, for all sets of commands and headsets and
all bounds, under `CmdAssumption` and `BoundAssumption`:

- `TypeCorrect`, `EffectOnce` and `LockExcludes` from `ExecInv`. At most one
  effect is not inductive: it needs that only `Dispatch` starts a handler and
  only when the journal has no row (`Journaled`, `Untouched`, `OneHandler`,
  `OneClaim`), that a handler before its ADB call has had no effect
  (`NotYetApplied`), and that the queue behind a lock holds everyone who waits
  for it or has it (`LockQueued`, `LockHeld`), which `ReleaseLock` needs for
  its types and which is why two handlers past the lock are the same.
- `QueueOrder` from `QueueInv`. A report moves a command only with the token of
  its last claim. A command that was never claimed has attempt 0, and every
  token in the Hub or on the network is positive (`TokensIssued`), so a report
  cannot open a command that is not the head; the commands of a headset are
  created in order (`InOrder`) and disappear together (`GoneTogether`).

`CommandAgreementProofs.tla` proves `AgreementHolds`, for all sizes too, from
`AgreeInv`. A success is written down together with the journal row that proves
it, and that row is final, so `Succeeded` holds of the outbox row, of every
request made from it, and of the Cloud's row, whenever each of them is read. A
failure has no such row: a handler may fail when the journal already says
`unknown`. That happens only after a newer claim of the same command
(`BatchAgrees`: whoever is asked to recover carries a newer token than every
handler), so such a failure is `Outdated`, and `updateCommandStatus` refuses its
token. Of a failure the invariant keeps that it denies the effect of a conclusive
command (`Unharmed`).

The same module proves `DeliveryHolds`, again for any number of headsets, from
`DeliveryInv`: a request on the wire and the Cloud's row say what the outbox row
says, or it is a success that has replaced the timeout they carry (`Follows`), and
a row is not marked delivered before the Cloud has a verdict (`MarkedLate`).

`CommandContractProofs.tla` has what holds of one headset (`OneHeadset`, a
hypothesis of its theorems; the second remark above is why it is needed).
`SerialInv` says why: a sync brings the head of the queue, at most one command,
and awaits its handler, so there is at most one task (`OneTask`, `OneBatch`);
what a delivery loop awaits is then what the outbox still says (`Tracked`), and
a command is only started while later ones have had no effect
(`EffectsFollow`).

- `EffectsOrdered` follows.
- `PipelineImplementsContract`: `Spec` implements `CommandContract`.
  `ApplyEffect` is `TakeEffect` (`ActIsTakeEffect`), a report that moves a
  command to an outcome is `Decide` (`ReportIsDecide`), `CancelDeviceCommand` is
  `Withdraw`, and every other step keeps verdict and effect. The second
  hypothesis,
  `Forget = {}`, leaves FORGET_DEVICE out: its success deletes the rows of the
  headset, and the contract has no verdict for a command that is gone. The run
  has the same instance.

Only model-checked: liveness.

## 4. Sessions

`SessionLifecycle.tla` has the Cloud's rows, the commands of the sessions, and
what the headset's agent makes of them.

| State | Code |
|---|---|
| `sess` | `sessions`: status, and whether `auto_end_requested_at` is set |
| `sd` | `session_devices`, by session and headset: status, `operation_state`, `revision`, the application that is current or desired, whether the time is used up |
| `dev` | `devices.status`; "online" stands for every status of a headset that is not in use |
| `queue` | per headset the `device_commands` of sessions that are not settled, with `session_state` and `previous_session_state` of their payloads |
| `agent` | the session, revision, pause and application the agent on the headset holds |
| `hb` | the heartbeat the Hub holds and repeats in every sync |
| `used` | how much of each bound of the model has been used |

`CreateSession`, `PauseSession`, `ResumeSession`, `ExtendSession`,
`SwitchSessionApp` and `Finish` are the transactions of `session-service.ts`;
pause, resume, extend and switch act on the first active headset of a session
(`FirstActive`), stop on the one named. `ReconcileExpired` is the timer.
`Succeeded` and `Failed` are `applyCommandLifecycleSideEffects`, one operator per
command type; they are run by `CommandSucceeds`, `CommandFails` and
`CancelDeviceCommand`. `CloudHeartbeat` is `reconcileSessionFromHeartbeat`;
`RunCommand` and `AfterIntent` are the dispatcher's intent and the agent's
`handleIntent`.

Abstractions. A headset has a queue of commands in which only the oldest is at
the Hub, as section 3 establishes for commands that are not cancelled after
their claim; a cancelled command the Hub already has ("ghost") still runs and is
awaited. An outcome that is unknown stays so, since the Hub's proof of success
does not reach the Cloud (`pipeline_unreconciled`), and blocks the queue.
Remaining time is used up or not; the agent's clock runs on its own. Requests
have new idempotency keys: a repeated key is answered without a change of state.
`recovery_state`, the session's own revision, timestamps, events and audit are
left out. A heartbeat is accepted at most once (`last_agent_timestamp_ms`).
`AfterIntent` is what the agent plays after an intent. Whether it keeps the
session's id to say so is another matter (below), so a heartbeat comes with the
id or without it, at each turn anew.

`SessionContract.tla` is what operators may rely on, without commands, requests
and heartbeats. A session is open, ending, completed or failed (`PhaseOf`; open
stands for the five statuses that `refreshSessionAggregate` moves between), and a
headset is in it or has left it, finished or failed (`SeatOf`). A headset is in
one session at a time and leaves it once; it finishes only in a session that is
ending; only the last one to finish completes it; nothing reopens a session, and
an open one has a headset. `EndFails` is as the code has it: one cleanup that
fails makes the session failed and leaves the other headsets in it (the first
of the observations below). `ImplementsSessionContract` is the refinement.

### Runs

| Run | Shows | Bounds |
|---|---|---|
| `session_one_headset` | no headset in two sessions, a pending operation has its command, session and row agree, a session whose START was announced runs when its headset does, a headset serves its session, a confirmed pause holds; a stop ends in completed or failed, unless an outcome is unknown; a player whose time is up leaves the session, whatever request is under way then | two sessions one after the other on one headset, one application, two requests beside start and stop, one cancellation, one lost announcement, one unknown outcome |
| `session_contract` | the refinement of `SessionContract`, which has the irrevocable stop and the headset of an open session as consequences; a headset whose stop was confirmed is out of the session and stays out, whatever becomes of the other one | one session of two headsets, two applications (symmetric), one request beside start and stop, one cancellation |

`ExpiredEnds` is about the row of a running player, not about what the timer looks
at: a request that is pending when the time is up (SWITCH, PAUSE, EXTEND in any
order with its result) must not keep the player in. It names the ways out that the
code has: the operator adds time or pauses, an outcome is unknown, or a lost
report of `running` has left the session in `preparing`, where the timer never
looks (`session_lost_start`).

Two sessions are needed for what one leaves on the headset to the next; two
requests for a late result of the first during the second; two applications for
heartbeats that do not match the row. Agreement, the pause and `EndingEnds` do
not hold for two headsets (below), which is why the first run has one; what
holds of two is the contract, and two of them are enough for who is the last to
leave and for a stop of one while the other starts, fails or is cancelled. A
completed session is over on its headset (`CompletedIsClean`) as a consequence
of `FinishedIsClean` and `StatusesAgree`. What the runs check of safety is
proved for every value of their bounds (below). Two
configurations end in a counterexample (`tlc -config <name>.cfg
MCSessionLifecycle.tla`):

| Configuration | Violated | What happens |
|---|---|---|
| `session_lost_start` | `AggregateRuns` | only the report of `running` moves a session from preparing to starting (`command-service.ts:281`), and the Hub goes on when that report is lost. The success of START then sets the headset's row to running, but `refreshSessionAggregate` (`session-state.ts:323`) cannot move preparing to running (`types.ts:188`): pause and extend throw, expiry does not see the session and heartbeats do not repair it (`docs/session-reliability.md:23`). `AggregateRunsIfReported` is what holds |
| `session_two_headsets` | `EndingEnds` | a stop or the expiry queues END for one headset and makes the session finishing. A stop of the other then returns at `session-service.ts:366` without queueing anything; END completes a session only if no row is active at that moment (`command-service.ts:588`), so it stays finishing for ever (`docs/session-mode.md:83` and `:73`) |

Fairness: the Hub polls every few seconds and works the queue of a headset off
(`HubStep`), and the expiry timer runs every 5 s (`server.ts:27`). Operators,
agents, heartbeats and the clock are not fair.

### Further observations

Met while modelling, each at its line, without a run of their own:

- END of one headset of several fails: the session becomes `failed`
  (`command-service.ts:608`) while the other rows stay active. No stop reaches
  them any more (`IsActive`) and the unique index keeps their headsets occupied
  (`docs/session-reliability.md:22`).
- START fails after a heartbeat has set the row to running: the row and the
  session stay running, the device is `error` (`command-service.ts:417`;
  `docs/session-mode.md:26` says that the session is marked failed).
- RESUME fails after its effect: the Cloud restores `paused` while the headset
  runs, and heartbeats of a paused session are not reconciled
  (`hub-sync-service.ts:23`).
- `operation_state` alone identifies a request (`command-service.ts:345`): after a
  heartbeat has settled a SWITCH and a second one was requested, the failure of
  the first restores the application before both.
- A failed EXTEND leaves `reconciliation_required` (`command-service.ts:505`);
  without a heartbeat of the session every further request but stop is refused.
- On a database whose CHECK predates EXTEND_SESSION, EXTEND travels as
  RESUME_SESSION (`session-service.ts:77`), whose success looks for
  `resume_pending` and leaves `extend_pending` in place.
- A cancelled END leaves the headset playing with its session failed.
- The Hub passes the session id as an integer extra
  (`local-hub/agent/provisioning.js:27`), the spatial launcher reads a long and
  does not copy id and revision into its state
  (`SpatialSessionController.kt:467`): its heartbeats carry no session id, so
  that the Cloud reconciles nothing from them. The model has both, heartbeats
  with the id and without it; what it shows holds of either launcher.

### Proofs

`SessionLifecycleProofs.tla` proves for all sets of sessions, headsets and
applications and all bounds:

- `OneSessionHolds`: no headset is in two sessions. `createSession` asks for it;
  the point is that nothing else makes a row active again. A result compares
  `operation_state`, not the row's status, so the invariant `SInv` adds `OpHolds`:
  only an active row waits for an operation other than `finish_pending`.
- `StopHolds` (`StopIsIrrevocable`): a session that is being ended or has ended is not taken back. It
  follows from the types alone, action by action: `CanMoveAllowed` (the table of
  transitions), `AggregateAllowed` (`refreshSessionAggregate`), and the guard of
  `restoreSessionState`.

`SessionStatusProofs.tla` has the invariants that relate rows, queues, agents and
heartbeats. For any number of headsets, sessions and applications and all bounds:

- `QueuesHold`: `QInv`, whose parts are the invariants the next three need.
- `SessionTypes`. Only revisions are not obvious: they are bounded because every
  request is counted, except the one END a row can get (`RevBounded`).
- `PendingHolds`, from `PendInv`: a row waits for an operation only as long as a
  command that settles it is queued and was not cancelled.
- `HeadsetServes`, from `TurnsInv`. The queue of a headset holds its sessions one
  after the other, each with START first and END last (`InTurn`), and only the
  oldest command can have been run. A row can be running although its START is
  still queued, because a heartbeat said so; what makes that harmless is that a
  headset that has heard of its session (`Heard`) has nothing else to do
  (`Alone`): whatever could still move the agent elsewhere was settled before.

And three about the life of a session, with as many headsets as it has:

- `LifecycleImplementsContract`: `Spec` implements `SessionContract`, from
  `PhasesHold` (`QInv` with `PhaseInv`). Every step changes one session and one
  of its headsets at most, in one of five ways (`Changes`), each a step of the
  contract or none (`ChangesImplement`). `PhaseInv` is what makes them so. The
  success of END finishes a row without looking at the session; the session is
  ending because a row waits for an END only then, and no second row of it does,
  since a stop leaves a session alone that is already finishing. When the last
  START of several fails, `refreshSessionAggregate` sees only rows that failed,
  because nobody finishes in an open session; otherwise it would leave the
  session open and empty.
- `OpenHeadsetHolds` is the same invariant.
- `FinishedStaysClean`: a finished row never gets another command, and the END
  that finished it was the last one of its session in the queue (`InTurn`) and
  has been run. Its invariant is `FinishedInv`.

And one about session and rows, again for any number of headsets:

- `AggregateFollows`: without a lost announcement, no row runs in a session that
  is preparing or starting. Its invariant `StartedInv` adds that a START whose
  announcement has arrived has moved its session on, so that the success of START
  finds a session that can be moved to running. Whatever else makes a row run
  leaves the session begun: a heartbeat is not reconciled while the session is
  preparing and moves a starting one to running, a failed request restores only a
  row that plays, and `refreshSessionAggregate` never goes back to preparing or
  starting.

For sessions of one headset (`Device = {d}`, a hypothesis of each theorem, as in
the runs), from `StatusInv`, which `StatusHolds` proves together with `QInv`:

- `StatusesAlwaysAgree`. `StatusFits` adds that a row waits for its END exactly
  when its session is finishing; `StartFits` that while a session is preparing
  its START is not announced, so that only the announcement takes session and
  row on together.
- `CompletedStaysClean`: only the success of END completes a session, END is the
  last of its commands, and it was run.
- `PauseAlwaysHolds`. The dangerous case is the extended session, whose heartbeat
  may say paused or running: `PauseKnown` says that agent, heartbeat and queued
  commands never have a newer revision than the row, and that whatever has the
  revision of a paused row says paused. `UpToDate` discards the rest.

With two headsets each of the three fails, and the hypothesis is needed:

- agreement: `session_two_headsets` shows how the rows of one session part;
- clean completion: a row that has failed no longer counts when the other
  headset's END completes the session, but its headset may still play. What holds
  is `FinishedIsClean` and the contract;
- the pause: with two requests, RESUME fails on one headset after its effect and
  the Cloud restores `paused`; the START of the other makes the session running
  (`refreshSessionAggregate` goes by any row that runs), and the next heartbeat of
  the first takes its row to running without a new request.

TLC finds the last two in the instance of `session_contract`, the pause with
`MaxRequests = 2`. Only model-checked: liveness (`EndingEnds`, `ExpiredEnds`).

## 5. Casts

`CastManager.tla` has the registry, the records, the producers ever started for
each of them, and the viewers.

| State | Code (`cast-manager.js`) |
|---|---|
| `streams` | the map `streams`, by stable serial |
| `rec` | a stream record: state, generation, `stopPromise`, `fallbackUsed`, `recoveryPromise` and the await it is in, attempts, the current producer, `noViewerTimer` |
| `prod` | a producer: generation, screenrecord pair or screencap loop, whether something of it still runs, has been signalled, whether a process of it died of a signal that was not the Hub's (`lost`), is listened to, has an 'error' to deliver, and whether its boot timer is armed |
| `view` | a viewer: the record it is attached to, what it has been sent, whether its client left before it was attached |
| `shut` | `shuttingDown` |

A step is what Node runs between two awaits. 'error' events of a spawn come on
the next tick and promises that are settled before any timer or request, hence
the three levels of `Next`. `Fail` is `fail` up to its await, with its three
ways on: `FallbackContinues`, `RecoveryWakes` and then `RecoveryResolves` or
`RecoveryFails`, and `GiveUp`. `Begin` is `beginProducer`, which calls the
factory before it looks the record up again. `ProcessError`, `ProcessCloses`,
`CaptureFails`, `BootTimeout` and `Publish` are the callbacks of a producer;
`AttachViewer`, `StartCast`, `ViewerLeaves` and `Drain` are the clients;
`StopWith` and `StopFinishes` are `stop` around its await, which
`NoViewerTimer`, `GiveUp` and `StopAll` call. Bytes, headers, metrics, the
address of the route and the exclusion with scrcpy are left out, as is a factory
that throws (`cast-manager.js:399`; a spawn reports its failure as an 'error'); a
refused request changes nothing.

A process may exit or be killed from outside at any time. `terminateOwnedProcess`
then waits for one that has died of a signal although it is gone, since such a
process has no `exitCode` (`Prompt`).

### Runs

| Run | Shows | Bounds |
|---|---|---|
| `cast_viewers` | a cast owns one producer, always has something that moves it on, is deaf to producers it has replaced; it strands no viewer and whoever joins is served or sent away, unless it has lost a producer by a signal | one headset, two viewers, two casts one after the other, one recovery, at most one process of a pair fails to start |
| `cast_overtaken` (violation) | a stop overtakes the await of a fallback or a recovery, which then starts a capture nobody owns | the same |

Two viewers are needed for one that leaves while another joins, two casts for
what the first leaves to the second; the run has 375,283 states.
Exits by a signal are part of every property. `AlwaysPending` exempts only a stop
under way in a cast that has lost a producer so (`LostOne`); `NobodyStranded` and
`ViewerIsServed` exempt the viewers of such a cast, because they are false of
them: the second observation below.
`OwnsOneProducer` is about what runs and has not been told to end: a signalled
process may outlive its record, since `stop` does not wait longer than its
grace period.

Fairness: timers fire, awaits are bounded (`terminateOwnedProcess` and
`resolveRoute` have timeouts), 'error' events are delivered, and a capture that
has produced goes on producing. A producer that starts may never produce;
clients, crashes and the shutdown are not fair.

### Observations

- With neither binary installed (`SpawnErrors = {0, 1, 2}`) the second 'error'
  is handled although the first has started a fallback: 'error', unlike
  'close', is not compared with the generation (`cast-manager.js:409`), so a
  recovery runs beside the fallback and two producers are started.
- When a process is killed by a signal from outside, a later `stop` waits for a
  process that is gone; meanwhile a fallback or a recovery sets the stopping
  record to starting, and a viewer who joins it is stranded: the stop ends, the
  record leaves the registry, and nobody sends him anything. TLC shows it when
  `LostOne` is taken out of `NobodyStranded`.
- The detachments that `stop` makes itself re-arm the no-viewer timer; its
  callback then finds nothing to do.

### Proofs

`CastManagerProofs.tla` proves for all headsets, viewers and bounds:

- `CastTypes`, from `TypeInv`. That `prod` stays a sequence of bounded length
  needs `Counted`: the producers started, and those that a fallback or recovery
  under way will start, are at most one for the cast, one for its fallback and
  one per recovery.
- `CastOwnsOneProducer` and `CastStaleIsSilent`, from `QuietInv`, if at most one
  process of a pair fails to start (`SpawnErrors` within `0..1`). Only the
  current producer is audible, and only while nothing is about to replace it; a
  replaced one has an older generation and does not capture. The checks in the
  callbacks are two (generation, current producer), and each covers what the
  other lets through: while a fallback is under way the old producer is still
  the current one.
- `CastAlwaysPending` and `CastStrandsNobody`, from `CastInv`, under the same
  hypothesis, and with exits by signals. `Driven` says what moves a cast on
  (`Moving`, of every cast in the registry that is not being stopped) and that,
  unless the cast has lost a producer, nothing is left to terminate while a
  fallback or recovery is under way, so that a stop meanwhile is over at once and
  `Begin` finds the record out of the registry; otherwise the record would be set
  to starting again. A producer once lost stays lost (`LostStays`). `ViewersInv`
  says who is attached to what.

The hypothesis is the negation of the first observation, and the exemptions are
the second, where TLC refutes the invariants without them. Only model-checked:
liveness.

## 6. ADB

`AdbSupervisor.tla` follows one headset.

| State | Code |
|---|---|
| `at`, `linked`, `hb` | where the headset answers, whether the ADB server has a connection to it, and the address in the heartbeat the Hub holds |
| `known`, `ignored`, `route` | its entry of `wirelessStateIndex` and of `routes` (`devices/routing.js`) |
| `sup` | its state in `adb-supervisor.js`: status, `inFlight`, whether `nextAttemptAt` is in the future, the route inputs |
| `flight` | the reconnect flight: its await, the addresses left to try, whether it is still current (`generation`), whether the inputs have changed since its pass began (`routeVersion`) |
| `look` | the periodic sync and another refresh of the routes, each in one of its awaits |
| `cmd` | a command in `adb-command-executor.js` with its process (`adb-process-runner.js`) |

`Discover`, `Discovered`, `Tell` and `TellAgain` are a refresh: `adb devices`,
the reconnects it tries itself, and `tick`. A refresh that reconnects waits for
the flight (`Continued`) and then publishes the address it read before it began
to wait (`routing.js:299-303`); the sync waits for the flight of its own tick. The
flight's steps are the awaits of `runReconnect`, in the order of the code;
`Answered` is what a waiting command makes of its result. `adbConnect` and
`adbDisconnect` are `ConnectedTo` and `DisconnectedFrom`; a flight that has been
cancelled while it waits for one of them ends only when the call has ended, with
what it did to the connection (`Stale`, `Landed`). The process can act, exit,
exceed its time or its output, ignore SIGTERM and be killed; after too much
output its time may still be up, and then it is a failure of the transport.

The generation is one bit: a flight is compared only with its state, none
starts while another lasts, and a forgotten state begins anew, so a flight that
is not current never becomes so again. `routeVersion` is a bit for the same
reason; a forgotten state whose version comes round to the flight's is
over-approximated. Waits, messages and metrics are left out. Nothing in the Hub
passes an `AbortSignal`, and the Hub never has the permission
`tryEnableWirelessAdb` asks for.

### Run

`adb_recovery`: two addresses, another device at one of them while the headset
is elsewhere, two refreshes, and two events: changes of address, failures of
what would have worked, authorization, repairs, forced reconnects, forgets and
refreshes other than the sync's. It shows that a mark `inFlight` always has a
flight that will clear it, a command that must not be repeated acts once, flights
and commands end, and a headset that stays at an address the Hub knows is
connected again, whatever a cancelled flight has done to its connection or a late
one has published. The run has 924,659 states. Two addresses are enough: a
pass over them has a first, a next and a wrong one.

That late results are never published is not claimed: it is not so (the first
observation below). What is checked instead is `ReconnectsInTime`, that no such
result keeps a reachable headset away for good.

Fairness: an ADB process has a timeout and the timer of SIGKILL, timers fire,
the sync is periodic, and a refresh that has begun ends. One assumption is strong: `BackoffEndsBetweenSyncs` says
that the back-off ends now and then while no refresh holds the routes. Without
the jitter of `nextBackoffMs` (lines 11-16) the two periods could be in step
for ever.

### Proofs

`AdbSupervisorProofs.tla` proves for all sets of addresses and any number of
events `SupervisorTypes`, `InFlightHolds`, `OnceHolds` and `SuccessHolds`. `Inv`
has the types of the fields on which control depends (`SupOK`, `FlightOK`), the mark
(`Real`), and `CommandOK`: a second run is begun only when that is safe, each
run acts at most once, and success ends the command. `Real` is stated of any
state and flight, since a step of the flight makes both in stages (a pass may
end in a new pass), and each stage has its lemma. The fields that hold addresses
may have any value in `Inv`. Their types are the second invariant, `Typed`: the
remembered list is one of addresses without repetition, a flight in the air is
on its way to an address, and a connection means that the headset is somewhere
(that is what makes the address that `Discover` remembers one). It needs no
other part of `Inv`. It rests on what `Remembered` and `Candidates` do to such a
list: `CandidatesComplete` says that a pass tries exactly the addresses that the
heartbeat, the route or the memory of the Hub names, each of them once.
`Without` is stated with `SubSeq` around the one place of an address, for which
the library has facts; the prover sees nothing of `SelectSeq`.

### Observations

- `docs/adb-reliability.md:9` says that "late results cannot publish the old IP".
  A tick that finds the headset unauthorized clears the mark and keeps the
  generation (`adb-supervisor.js:183`); an online tick after it (177-180) then sees
  nothing to cancel, and the flight that is still in the air remembers its
  address.
- A flight that was cancelled while it waited for `adb connect` leaves the
  connection it made. If that was because of FORGET_DEVICE, the headset may come
  back by itself: its entry is `readyForRediscovery` (`routing.js:308-311`), and
  the next discovery finds it connected (128-131). Rediscovery is not in this
  model.
- The recovery of a command (`worker.js:30`) does not look at `ignored`, and
  reconnects a headset that was forgotten meanwhile.
- A flight goes on after an await of `adbDisconnect` without looking at the
  generation again (`adb-supervisor.js:129-131` and `103`): the status of a
  headset that was found online, or forgotten, meanwhile is overwritten.
- A tick that finds the headset unauthorized does not raise the generation; a
  running flight overwrites its status.
- `different_device` is retried after the back-off, whereas
  `docs/adb-reliability.md:9` says that it is "not treated as ordinary offline
  retries".
- A tick from discovery erases the heartbeat's address of the inputs, so an old
  address may be published.
- A forced reconnect joins a flight that has been cancelled and gets its result.
- A refresh begun before FORGET_DEVICE writes the forgotten route again.
- On Windows `child.kill` sets `killed` at once, so no SIGKILL follows.

## 7. The agent's endpoint

`AgentEndpoint.tla` follows one headset, its agent, the Hub and the Cloud.

| State | Code |
|---|---|
| `agent`, `net` | the app: installed, which installation, started with which token, running; its requests under way |
| `cred` | its record in `agent/credentials.js` |
| `beats` | the ids in `agent/heartbeat-store.js` |
| `idx`, `via` | its entry of `wirelessStateIndex` (agent id, ignored, transport) and how ADB reaches it |
| `row` | its row in `devices`: agent id, online, `agent_token_hash` |
| `prov`, `gone`, `auto` | INSTALL_APK and FORGET_DEVICE between their steps, and `maybeAutoStartAgent` |

`Accepted` is `agent/auth.js` with `findMatching`, `Deliver` one request of the
agent; `Sync` is one sync of the Hub with the Cloud, prune and the decision to
start the agent (`Quiet`) included; the steps of `prov` are those of the
dispatcher between installing, starting, activating the record and reporting.
`prov.pc` is where the Hub stands and `prov.status` what the Cloud says of the
command. The two part: the operator may cancel until the report of `running` has
arrived (`CancelProvisioning`), and the Hub goes on; that report may be lost
(`InstallApp`); the verdict is refused if the command was cancelled meanwhile or
its claim token renewed (`ReportRefused`, `command-service.ts:185-204`). A command
whose verdict is refused while the Cloud waits for it is `stuck`.
Body limits, answers and sizes are left out. A heartbeat and a call share the check of the timestamp. A sync is atomic,
so that a late one cannot recreate a row that was forgotten meanwhile.

### Runs

| Run | Shows | Bounds |
|---|---|---|
| `agent_endpoint` | no request is accepted twice or out of order, what the Cloud shows of a rotation is true of both stores, an agent the record names is heard again and again, a dead one becomes offline | two installations, two tokens, two requests under way, three faults, operator actions or changes of the connection (381,103 states) |
| `agent_unheard` (violation) | an app provisioned by the routes of a headset presents ids that its record does not have | one installation, two tokens |

Two installations have different ids, two tokens allow a rotation that fails, is
cancelled or is refused after one that succeeded, three events allow a
cancellation together with a lost report and a crash, and two requests can
overtake each other.

That Hub and Cloud have the same credential whenever no rotation is under way is
not so: a rotation that is cancelled, interrupted or refused after the Hub has
activated its token leaves the Cloud with the old hash (below).
`RotationVerdict` is what the operator can rely on: a rotation shown as succeeded
is in force on both sides, unless the record was lost or the headset forgotten; one
shown as failed on neither; and the Cloud is never ahead of a Hub that has a
record.

Fairness: the agent sends while it runs and some request arrives; the Hub
syncs periodically; its own steps are awaits with timeouts. Faults, operators
and the connection are not fair.

### Proofs

`AgentEndpointProofs.tla` proves for any number of installations, tokens,
requests and events: `EndpointTypes`, `NoReplayHolds`, `RotationVerdictHolds`.
The invariant adds to the types that a request passed by an accepted one with
its token is older than `lastTimestamp` as long as the record has that token
(`Spent`), that the token of the record is never newer than that of the last
rotation, so that a replaced token never comes back (`TokenOrder`), and, for each
place of the Hub and each status in the Cloud, which token the two stores may
have (`Verdicts`: until it is activated nobody has the rotation's token, a verdict
waits in the outbox only after that or after a failure, and a status that is
final leaves nothing on the way). Liveness is only model-checked.

### Observations

- A rotation that the operator cancels before the report of `running` arrives is
  performed all the same (`dispatcher.js:154`), and its success is refused
  (`command-service.ts:202`): the Hub and the agent use the new token, and the Cloud
  keeps the hash of the old one until the next rotation.
- POST `/commands` with all ids is heard (`OperatorPayloads`), but the row's
  `pairing_id` is the agent's UUID, so `markOperatorCall`
  (`repositories/hubs.ts:28`) updates no row while the player reads that the
  operator was called (`SpatialSessionController.kt:292`).
- A call overtaken by a later heartbeat is refused and not repeated.
- INSTALL_APK recovered after a restart is reconciled without
  `agent_token_hash`: `applyAgentProvisioningResult` throws, and the command
  never settles ("stuck").
- `saveJson` (`storage.js:16`) writes in place; a crash leaves an empty file.
- After a reinstallation the route keeps the old agent id, and the Hub starts
  the agent again and again.
- A headset that was forgotten and comes back over Wi-Fi stays ignored until it
  is seen on USB.
- A clock that runs ahead or behind gets 408 for ever; nothing corrects it.
- After a rotation `lastTimestamp` starts anew: a request of the new token that
  one of the old token has overtaken is accepted. It is new, so nothing is
  replayed.
- `END_SESSION` waits for an answer found by `findForRoute({stableSerial})`
  (`dispatcher.js:132`), an id that the agent may never send.
- A unique index on a legacy alias makes the sync's transaction fail
  (`cleanupDuplicateDeviceAliases`) as long as both rows exist.

## 8. Not modelled

- The launcher's own state machine (`SpatialSessionController.kt`).
  `transitionTo` never copies session id and start into its state, so the next
  transition erases them from the preferences; a duplicate START is never
  recognised, the timer and the automatic end run only after a restart, and the
  delayed callbacks of STOP (10 s), of the automatic end (15 s) and of START
  (3 s) act on whatever session there is by then, which differs from the timer
  of `docs/session-reliability.md`. A model needs the Android life cycle (two
  controllers handle each intent) and is the next module of the plan;
  `SessionLifecycle` has the protocol the Cloud relies on.
- The 2D launcher: an earlier version with the same intents.
- Merging of alias entries of a headset, in the Hub (`routing.js`) and in the
  Cloud (`repositories/devices.ts`), and the choice between two live routes:
  planned as algorithms.
- Migrations: planned. Authorization, statuses shown to the operator, stream
  URLs and encoder arguments: pure functions without interleavings.
- Catalog, organisations, audit: single statements. Pages, wiring, soak scripts:
  rendering, I/O, tests of real hardware.
- APK validation and allow-lists of the dispatcher: pure functions.

Everywhere, liveness under fairness is only model-checked, as is whatever needs
an induction over a sequence or a recursive definition, which is out of the
provers' reach.

