# Pancetta: TLA+ verification project

Pancetta is an unattended FT8 amateur-radio station: it decodes the band every
15 seconds, works other stations by exchanging short frames with them, logs the
contacts and, if the owner consents, lets a remote operator drive it. This
directory holds TLA+ models of the parts where a wrong interleaving, a stale
value or a missing timeout would key a transmitter without authority, leave it
keyed, or lose or falsify a contact, the TLC configurations that check them, and TLAPS
proofs of every safety property the passing configurations check.

The source is the reference. A definition is named after the function or type
it models, and the map in `PROJECT.json` gives its lines.

## 1. The system

The workspace has fourteen crates. At run time it is one process of supervised
asynchronous tasks ("components") that exchange messages over bounded channels
(`message_bus.rs`) and share a few locks and atomics.

| part | state it keeps | operations | talks to | what is hard |
|---|---|---|---|---|
| Arm gate (`pancetta-agent/src/arm.rs`) | live arm, consent per channel, local kill | arm, heartbeat, disarm, tick, `tx_permitted` | station agent writes it, TX worker reads it before every key-down | three clocks that disagree, replayed frames, expiry noticed late |
| Grant verifier (`capability.rs`) | used grant ids, deny-listed tokens | verify a token, verify a grant | station agent | single use across restarts, checks in the right order |
| Station agent (`coordinator/station_agent`) | peers, their tokens, controller, allow-lists, owed cleanup | one per control frame; poll; reconcile; flush; crash guard | relay socket, arm gate, QSO loop, config reload | revocation racing arming, lists published in steps, full inbox, panic while armed |
| QSO manager (`pancetta-qso/src/qso_manager.rs`) | map of QSOs, callsign index, message lists | open, answer, step, resend, cancel, apply a decode, repeat, time out, clean up | QSO loop, TX queue, log | two tasks on one map with the lock given up in between, frames lost, repeated and decoded twice |
| Coordinator QSO loop (`coordinator/qso.rs`) | completed contacts awaiting a 73, caller queue | one per bus message or event | QSO manager, TX worker, uploads | retries of what is already done |
| TX worker (`coordinator/tx.rs`), halt | requests, the frame in hand, PTT guard, abort flag and policy | collect, gate, key, play, supersede, abort, halt, report | QSO loop, rig channel, arm gate, audio | a halt between check and key-down, a newer frame while one is on the air, dropped channel sends |
| Autonomous operator (`autonomous.rs`) | priorities, cool-downs | choose a call per slot | QSO loop | decisions taken on an old picture |
| Rig control (`coordinator/hamlib.rs`) | command loop, PTT watchdog per start, readiness, stuck-PTT latch | set PTT, watchdog cut-off, teardown, restart, rig switch | TX worker and TUI send it PTT commands, supervisor restarts it | tasks that die alone with the rig keyed, CAT commands that fail halfway |
| Message bus, supervisor, restart budget | channels, task handles, TX inhibit, restart history | send, restart with backoff, give up | every component | full channels, a crash loop |
| Upload outbox | entries per destination, file | enqueue, deliver, retry, persist, quarantine | QSO loop, online logs | crash between delivery and save, failed writes, shutdown |
| Decoder, DSP, audio, TUI, configuration, DX data | signal buffers, devices, screens | | | numerical or I/O; not modelled |

For the arm gate, correctness is: no transmission past the authority that was
signed, at most one dead-man window per heartbeat, and each grant used once. For
the agent: only the controller is armed, nobody the owner delisted stays armed
or connected, and two operators' exchanges are never mixed. For the QSO engine:
one exchange per station, one log entry per contact with the data that was
really exchanged, and an end to every exchange. For the TX worker: each attempt
is reported once and truthfully, a PTT-on is answered by a PTT-off, and a halt
holds. For rig control: a rig is never left keyed with nobody timing it and
nobody told. For the outbox: a contact is uploaded from a saved queue and leaves
it only when its service has it.

## 2. Modules

| module | models | state and actions |
|---|---|---|
| `ArmLease` | abstract promise about arms | the live grant id and the ended ones; `Lease`, `End` |
| `ArmGate` | `arm.rs`, `verify_arm_grant`, the TX worker's check | session, consents, kill switch, three clocks, burned ids; one action per `ArmState` method, plus the clocks and the client that signs heartbeats |
| `StationAgent` | `station_agent/mod.rs`, the config reload's revocations, the crash guard and supervisor, the QSO inbox | the session task as a program counter over its loop, one action per control frame, two publishers of three steps each, crash and restart |
| `QsoLadder` | `determine_state_transition`, `generate_response`, the repeated frame | pure operators on one QSO's stage |
| `QsoEngine` | `qso_manager.rs` over the ladder | the QSO map, the index, the decode being applied, the watchdog's position; one action per command and per critical section |
| `TxWorker` | `tx.rs`'s worker, `tx_halt.rs` | the worker as a program counter from the inbox to the report, one action per gate, outcome of the wait and supersede outcome; operator, arm and cap as the environment |
| `RigLink` | `hamlib.rs`'s PTT path, `health.rs`'s handling of Hamlib, `restart_budget.rs`, the PTT producers of `tx.rs` and `tui_relay.rs` | the rig, the loop, one watchdog per generation, the supervisor's teardown and restart as a program counter |
| `DurableQueue` | abstract promise of the outbox | what is queued on disk, arrived, put aside |
| `UploadOutbox` | `coordinator/upload_outbox.rs`, `pancetta-dx/src/upload_outbox.rs`, the upload subscriber | the worker's loop, its lanes, the queue in memory and on disk; crash and restart |
| `ArmGateProofs`, `StationAgentProofs`, `QsoEngineProofs`, `TxWorkerProofs`, `RigLinkProofs`, `UploadOutboxProofs` | theorems about the module each is named after | an inductive invariant, one lemma per action or group of actions, the theorems |
| `MCArmGate`, `MCStationAgent`, `MCQsoEngine`, `MCTxWorker`, `MCRigLink`, `MCUploadOutbox` | instances for TLC | constants and symmetry sets only |

`StationAgent` and `ArmGate` meet in `ArmLease`: both implement it. In
`StationAgent` an arm is only the grant it came from and a flag saying that one
of its deadlines has passed; how deadlines pass is `ArmGate`'s subject. In the
same way the agent sees the QSO engine as an inbox and the set of remote clients
with live exchanges. `TxWorker` and `RigLink` meet at the rig's channel: the
first sees it as a place that takes a PTT command or drops it, the second takes
the worker's part down to raising `ptt_active`, passing the hard mutes, sending
PTT-on and PTT-off, and lowering `ptt_active`.

### ArmGate

Time is three natural numbers: the wall clock, which `WallStep` sets to any
value of `WallTarget`; the monotonic clock, which `Suspend` leaves behind; and
the suspend-aware clock. `VerifyArmGrant` and `Arm` are separate actions, as
they are separate calls in the code with the arm lock taken only for the
second, so the wall clock may be set in between. A frame a client ever signed
may arrive at any time and any number of times: `Heartbeat` is enabled for
every sequence number below `sent`, and `VerifyArmGrant` for every id. `granted`,
`sent` and `ended` are history, read only by properties. `Arm` is bounded so
that an arm accepted in a run can also run out in it.

Signatures and encodings are not modelled: a frame that fails such a check is
refused and changes nothing.

### StationAgent

`pc` follows `run_one_session`: flush an owed cleanup, wait for a frame or a
tick, expire stale peer tokens, dispatch, housekeeping (read the generation,
reconcile, expire). `DispatchArm` verifies and burns the grant; `ArmUnderLock`
takes the arm lock later, reads eligibility again and arms; the publishers may
run in between. A publisher takes the arm lock once, ending an arm it revokes
and publishing who may arm; then publishes who may connect; then bumps the
generation. `Crash` may strike wherever the task is, `Restart` is the
supervisor's. `poisoned` says a task panicked while it held the arm lock; paths
that skip a poisoned lock and paths that enter it are told apart.

Left out: frames to clients, rig and split commands, the audit trail, device
keys, additions to the configuration (they need a restart), disabling the
agent, and a poller that outlives its abort. The transport's peer table and the
agent's are merged.

### QsoLadder and QsoEngine

The ladder is the code's transition table. A grid square is represented by the
station it belongs to. Reports are kept apart as values since which one is held,
transmitted and repeated is what the properties ask about; a report of ours
is the SNR of the frame it answers.

Two tasks work on the map. The coordinator's loop takes a command or a decode at
a time. A decode is `ProcessMessage`, which finds the QSOs it is relevant to
under the read lock, followed by `ProcessMessageForQso` for each, under the write
lock. The watchdog task is `RearmManualCalls`, then `CheckTimeouts`, which scans
and retires the first QSO it collected, then `RetireTimedOut` for each of the
others after the lock has been released and taken again. Timestamps are kept
as ages in slots, each up to the age past which no test tells it from a greater
one; `AgeCap` bounds them all.

Which QSOs a decode is near in frequency is left open (`near`), so every outcome
of the offset gate is explored. Left out: the unsent-attempt ledger's
roll-backs and offset moves, contest and Hound procedures, compound callsigns,
remote origin, bands other than one, admission limits, the database's duplicate
check, and retirement of callsigns that cannot be encoded.

### TxWorker

An attempt is one emission of the QSO engine. `Take`, `Coalesce`, `Admit`,
`Reached`, `Gate`, `Key`, `Play`, `PlayedOut`, `Release` and `Finish` follow the
worker's loop; a request is a single frame or a bundle, and a bundle's items are
a set. While a frame is on the air the worker polls its inbox, the abort flag
and the arm; a newer request becomes a `Bundle`, a `Replace`, a `NotViable` or,
for a bundle in the air, a replacement of the bundle. `halt` is two steps
(`HaltAbort`, `HaltPolicy`), as it is two stores. `Told` and `Failed` are the
reports to the QSO engine, which rolls a call back on the second. `keyed`,
`quiet`, `abandoned`, `offLost` and `doomed` are history.

Left out: texts, offsets and slot times; the key-time pivot, frames without a
QSO, the tune carrier and the audio buffer; an incoming request that repeats the
frame on the air exactly, which the code drops; items that a supersede carries
over unchanged and so does not report as failed (here a superseded bundle's
items are all replaced); and the deferral of requests that came over the second
consent channel (WSJT-X UDP) to a bundle of their own. Every gate but the
policy and the remote arm (band plan, an ended QSO, parity, rig state, lateness,
encoding) refuses by a free choice, and so may a channel: the inner retries of
a send are abstracted to "gives up only while the channel is full".

### RigLink

A generation is one start of the component. Its command loop and its watchdog
are separate tasks and may each die at any await; `InFlight` is what a CAT
command cut short may have done to the rig.

`rig` is the radio that rigctld drives. The clients of all generations dial one
address and reconnect when they must, so the CAT commands of an orphaned
watchdog, of a teardown and of the new loop all reach the radio of the rigctld
that answers there now, or nobody (`cat`). A switch kills the managed rigctld
after the teardown, and the start that follows, like the one after a crash of
rigctld, may find the same radio (an external rigctld), none (nothing could be
spawned), or another one (`AttachRadio`). The radio left behind stays as it was:
nothing in the program can reach it any more, and `left` remembers that one was
keyed when it was left. A later switch may come back to it and find it keyed.
rigctld changes its radio only at a start, not by itself in between. A start may
be refused because of the configured port, which an operator can change before a
crash restart too (`StartRefused`: no loop, no error), or bail out because its
loop did not publish its children (`StartBails`).

The supervisor's `sup` runs through
`teardown_hamlib` (abort old orphans, force PTT off, reap the children, latch,
drain and replay), the decision to restart, the start and the release of
orphans, for a crash as for a rig switch. The watchdog's confirmation is two
steps (`DogCounts`, `DogSwaps`) since it is two atomics that the latch races
with. Time is left out: a running timer may run out at any time, and a restart
may have left the budget's window whenever the budget is asked, which is when
the code prunes it. What a handler of the supervisor keeps in its locals has its
first value again once it is done, and what a loop sends to a start that no
longer waits for it (`Listening`) is lost. `untimed` and `switchFailed` are history.

Left out: frequency, split, mode, gain and polling (the polling child is merged
with the watchdog, as either one's end ends the loop), a rig that is disabled or
mocked, backoff lengths, and the moment between a task's end and its guard's
drop.

### UploadOutbox and DurableQueue

The worker's `pc` follows `Worker::run`; every change of the queue is followed by
a write of the file, which may succeed, fail before the rename, or fail after
it. A crash keeps `disk`, `aside` and `arrived`. A service may take an upload and
its answer be lost. Lanes become due by a step of their own, so all backoffs are
covered; the wall clock that orders attempts is taken as monotone. Rendering,
the HTTP exchange, and lag of the event broadcast are left out.

The dispatch loop skips a lane whose next entry is not saved yet even if an
older, saved one waits behind it; that delays the older entry until the write
succeeds, and `QueuedArrives` holds all the same.

## 3. Runs

Deadlock is checked except in `tx_worker`, `tx_supersede`, `rig_link` and
`rig_dead`, where the system may rest: the worker with an empty inbox after its
last request, the link when its producers' bound is used up.

| run | expected | checks | bounds and why they are enough |
|---|---|---|---|
| `arm_gate` | pass | `TypeOK`, `AuthorityBound`, `DeadmanBound`, `ElapsedExpiryIsFinal`, `LeaseSpec`, `ArmEventuallyEnds` | one grant presented any number of times and two heartbeats; a window of 2 and a cap of 5, so that a replayed heartbeat would be visible before the cap; tokens ending before and after the arm window; a wall clock that can be set back to 0 and past every deadline. A second grant replacing a live arm is covered by the proofs, and by `agent_authz` in the agent |
| `agent_control` | pass | `TypeOK`, `ArmFollowsControl`, `OneRemoteOperator`, `LeaseSpec` | two clients, three sessions, one grant presented any number of times, an inbox of one slot, one expiry, one fault; evictions are `agent_authz`'s and `agent_live`'s subject (with an eviction and two sessions the same invariants hold in 3.6M states) |
| `agent_authz` | pass | `ArmedIsEligible`, `SeenGenerationIsCurrent`, `DenyListedIsDead` | one client with two grants; two publications, so the poll and the config edit overlap |
| `agent_live` | pass | `DelistedIsEvicted`, `OwedCleanupIsDelivered` | one client, one publication, consent edits, under `FairSpec` |
| `qso_exchange` | pass | `TypeOK`, `ReportIsStable`, `EveryQsoEnds` | one QSO, one station, two reports, each frame delivered once or twice, every command that opens, steps or repeats an exchange and a muted transmitter, under `FairSpec` |
| `qso_pairs` | pass | `OnePerStationAndRole`, `LoggedOnce` | two QSOs with one station, every command but the resend, each frame delivered once; second copies are covered by the theorems `OneQsoPerRole` and `ContactIsLoggedOnce` |
| `qso_retire` | violation | `CompletedNeverFails` | two stations, two QSOs |
| `outbox` | pass | `TypeOK`, `SentIsOnDisk`, `DiskBehindIsMarked`, `CleanStopSavesAll`, `QueueSpec`, `QueuedArrives` | two QSOs, one service that takes one of them and never the other, a channel of one batch, under `FairSpec`. The full queue does not occur here, so that an upload refused for want of room is the theorem `CleanStopLosesNothing`'s; a capacity of 1 with every answer (83k states) and three QSOs with a capacity of 2 (1.8M) were checked once |
| `tx_worker` | pass | `TypeOK`, `ReportedOnce`, `FrameIsAccounted`, `OnIsAnswered`, `HaltHolds`, `WorkerDrains` | three attempts: two of one QSO, so that a frame is superseded by its own successor, and one of another QSO to share a bundle with, the last one remote; caps 1 and 2; under `FairSpec`. Four attempts (6.2M states) and two clients in conflict (762k) were checked once |
| `tx_supersede` | violation | `AbandonedIsReported` | the same instance |
| `rig_link` | pass | `TypeOK`, `KeyedIsKnown`, `LatchIsTrue`, `InhibitIsOwed`, `ReadyIsTrue`, `ReleaseKeepsWatch`, `LeftIsReported` | three generations, so that a watchdog is orphaned, released or torn down a second time, and a switch can come back to the radio it left; one keying, one restart in the window, one PTT-off attempt per teardown (more attempts only repeat a failure), a channel of one command; the last generation always starts and finds a rigctld |
| `rig_dead` | violation | `DeadLinkIsInhibited` | four generations, no keying needed, a budget of one |

In the QSO runs the limits are counted in slots and kept in the order the code
has them only where a property depends on it: state timeout, ledger retention
(0 in `qso_exchange`) and rework grace 1, watchdog and repetition limit 1, call
cap 2 (the code: 30 s, 4 slots, 45 s, 5 min, 300 s and 25 calls). Every
limit is reached and passed, in every order relative to frames.

Each property of a passing run has a mutant in `PROJECT.json`: a small change to
a mapped definition, such as a missing guard or a limit off by one, under which
the run fails.

### Fairness

`ArmGate!FairSpec`: the sweep runs on each iteration of the session loop and
time passes. Nothing is assumed about clients or the network.
`StationAgent!FairSpec`: the session task, a publication that has begun and the
QSO engine continue, since all are scheduled tasks that only await each other
through channels with timeouts. Clients, faults, polls and edits may or may not
come.
`QsoEngine!FairSpec`: the watchdog's interval timer fires, a decode being applied
is finished, and slots pass. Operators and stations are not assumed to do
anything. A slot lasts three watchdog periods, so a scan runs between the last
frame of a slot and the next slot; the guard of `Tick` says so.

`UploadOutbox!FairSpec`: the worker's task and its timers run, its `select!` starves
neither batches nor results, a write that is retried succeeds at last, every
attempt is answered (each has a timeout), and an upload a service is willing to
take is taken if it is tried again and again. Nothing is assumed about
completions, shutdowns or crashes.
`TxWorker!FairSpec`: the worker's task takes its next step. The operator, the
QSO engine, the arm and the cap are not assumed to do anything.

`EveryQsoEnds` is conditional: it says that a QSO ends if from some point on no
second copy of a frame counts (`SecondCopyCounts`) and no operator steps the
exchange (`OperatorSteps`). Both happen in the run, any number of times, and
without either condition TLC refutes the property: with an operator who steps
the same QSO forward and a station that sends it back, slot after slot, the
exchange goes on for as long as both want, and frames delivered twice can do the
same to a manual QSO (section 4). What the station repeats, skips or takes back
once per frame, and what a muted transmitter keeps silent, cannot.

## 4. What the violated properties show

1. `qso_retire`. `check_timeouts_at` retires what its scan collected one QSO at
   a time and releases the lock after each. A QSO that completes in the gap is
   removed and reported as failed after it was reported as completed.
2. `tx_supersede`. With more than one QSO allowed, a newer frame of the QSO on
   the air is folded into a bundle. The frame on the air is not one of the
   bundle's items, since its QSO is represented already, and unlike `Replace`
   and `NotViable` the bundle outcome reports nothing. `FrameIsAccounted`, which
   passes, says that this is the only way an attempt is lost.
3. `rig_dead`. A rig switch that succeeds repays the inhibits kept when Hamlib
   was given up, but leaves its status at `Failed`. With the restart budget
   exhausted the next crash takes the early return of `handle_finished_task`:
   no PTT-off, no inhibit. Frames are still refused by the readiness flag; a
   rig that was keyed stays keyed unless the watchdog survived.

Observations of the same kind without a run of their own. The first five are
stated as definitions in the modules and TLC refutes them within seconds.

- `StationAgent!ArmListWithinAdmission`: a poll between the two publications of a
  config revocation leaves a revoked client in `tx_arm_allow_list` and not in
  `tx_allow_list`, although the field's comment says the first is a subset of
  the second. The client cannot connect, and the next poll repairs the lists.
- `QsoEngine!OnePerStation`: a QSO that began as our CQ is not entered in the
  callsign index when it is answered (the comment there says it is), so a
  manual call to the same station opens a second QSO beside it. In one role
  there is never a second one: `OnePerStationAndRole` passes.
- `QsoEngine!LoggedGridIsPartners`: outside `RespondingToCq` the grid of any
  station that answers us is latched into the QSO's metadata.
- `QsoEngine!SecondCopyIsIgnored`: the fast path and the standard decode each
  deliver a frame, and nothing drops the second one. A manual QSO waiting for
  its confirmation that receives a grid frame twice regresses and then advances,
  and while that goes on it does not time out.
- `TxWorker!SentWasKeyed`: a PTT-on that finds the rig's channel full is dropped,
  the audio is played all the same and the frame is reported as sent, although
  the accounting rule in `docs/DECISIONS/tx-scheduling.md` covers PTT failures.
- `SkipToClose` logs the closing frame's SNR as the report we sent, and
  `FromSendingReport` drops the report inside an R-report in favour of the one
  known, or of the default if none is.
- `halt` stores the abort flag before the policy. If it is preempted between the
  two while the worker returns to the head of its loop, which clears the flag, a
  frame taken then may still be sent; `HaltHolds` speaks of halts whose flag was
  still up when the policy closed. `CycleTxPolicy` stores the policy first.
- The watchdog clears its timer after its forced PTT-off without looking whether
  the loop has keyed the rig again since, and the loop clears it before the CAT
  command that unkeys has succeeded (a gap `docs/DECISIONS/remote-operation.md`
  records). Either leaves a keyed rig untimed; `KeyedIsKnown` exempts the two.
- A switch to another radio kills the old radio's rigctld after a teardown whose
  PTT-off may have failed. If the old radio is keyed, no watchdog can reach it
  from then on. It has been reported by then (`LeftIsReported`), but the new
  radio's first confirmed PTT-off clears the warning, and the orphaned watchdog
  is aborted: the old radio stays keyed, untimed and no longer reported.
  `KeyedIsKnown` and `ReleaseKeepsWatch` speak of the radio rigctld drives.
- A crash restart that is refused because of the port in the configuration
  counts as a success: the status becomes `Running` and the inhibit is released
  with no loop there. The readiness flag still refuses frames.
- A teardown aborts the orphans of earlier ones before its own PTT-off is known
  to work: after two failed teardowns only the latch tells of a keyed rig.
- A rig switch answered with an error keeps its inhibit even when the slow loop
  comes up later.

## 5. Proofs

Every safety invariant, action property and refinement that a passing run checks
is a theorem of the module's `Spec`, for every value of its constants. TLC shows it on a
small instance, the theorem on all of them; the bounds in the guards (how many
QSOs, generations, attempts, sessions) are constants too, so the theorems hold
for any of them. Each proof module states its invariant as a conjunction of
named parts, proves `Init => Inv` and `Inv /\ [Next]_vars => Inv'` with a lemma
per action, and ends with one theorem per property. TLC checked each inductive invariant
on the run's instance before it was proved.

| module | theorem | property |
|---|---|---|
| `ArmGateProofs` | `TypeCorrect` | `TypeOK` |
| | `AuthorityIsBounded` | `AuthorityBound` |
| | `DeadmanIsBounded` | `DeadmanBound` |
| | `ExpiryIsFinal` | `ElapsedExpiryIsFinal` |
| | `ImplementsArmLease` | `LeaseSpec`, refinement of `ArmLease` |
| `StationAgentProofs` | `AgentTypeCorrect` | `TypeOK` |
| | `ArmFollowsTheController` | `ArmFollowsControl` |
| | `ArmsAreEligible` | `ArmedIsEligible` |
| | `GenerationTellsTheList` | `SeenGenerationIsCurrent` |
| | `DenyListHolds` | `DenyListedIsDead` |
| | `OneOperatorAtATime` | `OneRemoteOperator` |
| | `ArmsAreLeases` | `LeaseSpec`, refinement of `ArmLease` |
| `QsoEngineProofs` | `EngineTypeCorrect` | `TypeOK` |
| | `LoggedReportIsSent` | `ReportIsStable` |
| | `OneQsoPerRole` | `OnePerStationAndRole` |
| | `ContactIsLoggedOnce` | `LoggedOnce` |
| `TxWorkerProofs` | `WorkerTypeCorrect` | `TypeOK` |
| | `NoSecondReport` | `ReportedOnce` |
| | `EveryFrameIsAccounted` | `FrameIsAccounted` |
| | `EveryOnIsAnswered` | `OnIsAnswered` |
| | `HaltIsEffective` | `HaltHolds` |
| `RigLinkProofs` | `RigTypeCorrect` | `TypeOK` |
| | `EveryInhibitIsOwed` | `InhibitIsOwed` |
| | `ReadinessIsTrue` | `ReadyIsTrue` |
| | `WarningIsCurrent` | `LatchIsTrue` |
| | `StuckRigIsKnown` | `KeyedIsKnown` |
| | `LeftRadioIsReported` | `LeftIsReported` |
| | `RestartKeepsWatch` | `ReleaseKeepsWatch` |
| `UploadOutboxProofs` | `OutboxTypeCorrect` | `TypeOK` |
| | `NothingSentUnsaved` | `SentIsOnDisk` |
| | `LateFileIsRetried` | `DiskBehindIsMarked` |
| | `CleanStopLosesNothing` | `CleanStopSavesAll` |
| | `OutboxIsDurable` | `QueueSpec`, refinement of `DurableQueue` |

The assumptions are the named ones of each module: windows, caps and limits are
naturals, positive where the code's are, the "none" values lie outside the sets
they stand beside, the sets of QSOs and destinations of the outbox are finite,
and every age limit of the QSO engine lies below the cap at which ages stop.

### Why the invariants are what they are

**Arm gate** (`IndInv`). `AuthorityBound` compares the elapsed time
with the authority the grant had when it was verified, so the invariant must say
that a session's lifetime is within that, that a grant on its way to the lock
still carries it, and that the stored clock readings do not lie ahead of the
clocks. `DeadmanBound` needs the window's position to be tied to the sequence
number consumed: one timeout per number, and no number that was not signed.
`LeaseSpec` needs the ids: a live one is burned and not ended, and a pending one
is neither live nor ended. `OneWindowPerSeq` carries the one piece of
nonlinear arithmetic.

**Station agent** (`AgentInv`). `ArmFollowsControl` says nothing of a poisoned
lock, and an arm taken while a grant waits for the lock would break it, so
`VerifiedIsFresh` describes that grant: the controller's, for its present
session, never live, not deny-listed. `UsedIsSpent` says why a grant arms once
even after a crash has cleared the task's memory: a jti that was live is
remembered or names a session that is over. `OneRemoteOperator` needs the order
in the QSO inbox: `OperatorInLine` says there is a function giving, for each
position of the queue, whom the engine will be working for once it has read that
far, and that every intent is his. `TypeOK` is not inductive alone either: that
an intent has a client follows from that order.

**QSO engine** (`EngineInv`). `OnePerStationAndRole` has two halves. Where we
call, `IsIndexed` says that the callsign index finds every exchange of ours that
has not failed, so opening one supersedes the others. Where we are called, the decision is taken under the
read lock and used later: `AnswerIsFree` says that while an answer to an open CQ
is being applied its sender is in no exchange, whatever the watchdog retired in
between, and no second CQ takes it. `LoggedOnce` needs `IsIndexed` for completed
QSOs and `LogIsOver`: a QSO that was logged is not in progress. `FollowStep`
covers every action that opens no QSO and gives none a partner, from `Follows`,
what one QSO may become; `TransitionKeeps`, `ReportsAgree` and `AppliedKeeps` are
the lemmas about the ladder.

**TX worker** (`TxInv`). Every step of the worker moves attempts between the
inbox, its two hands and the reports. `Flow` states what all of them have in
common: a step takes attempts out of what is held, each of them is reported,
dropped by design or left behind, and only a frame at its tail is reported as
sent. `ReportedOnce` and `FrameIsAccounted` follow from `Flow` and from `Apart`,
that no attempt is in two places. `CutQueue`, `TailQueue`, `JoinedQueue`,
`PutInQueue` and `RemovedFromQueue` are the lemmas about queues. `HaltHolds`
needs `HaltIsKept`: past the gates a halted frame still finds the abort flag up.

**Rig link** (`RigInv`). `KeyedIsKnown` speaks of settled states only. Between
them `StuckIsReported`, `KeyedIsTimed` and `TeardownIsTrue` follow the teardown
through its steps: what it believes about its PTT-off is true. `InhibitHolds`
(under an inhibit no PTT-on is on its way to the rig) lets the teardown's
knowledge survive until the restart, and `SafeIsTimed` says what `ptt_safe`
promises the supervisor, which `ReleaseKeepsWatch` rests on. Every start may find
another radio; `AttachSteps` says that one found keyed and not excused is the
radio there was before, so that what the teardown knew of it still holds. As a
bound, the
last generation is not given up, and `Order` says so.

**Upload outbox** (`OutboxInv`). `SavedIsOnDisk` (what memory does not mark as
unsaved is in the file), `GoneHasArrived` (what the file still holds and memory
does not has arrived) and `OneInFlight` (one upload per destination, sent or
answered) carry the refinement; `NothingToCome` and `DoneIsTracked` follow a
completed QSO from the event to the file for `CleanStopSavesAll`.

Two things were wrong in the models and came to light in the proofs:
`UploadOutbox`'s assumption on `Answers` read `SUBSET X \ {{}}`, which is
`SUBSET (X \ {{}})`, and allowed an empty set of answers; and `RigLink!TypeOK`
bounded the inhibit counter by the number of generations, while one generation
may keep two: for the failed switch that started it and when it is given up.

Only model-checked: the liveness properties `ArmEventuallyEnds`,
`DelistedIsEvicted`, `OwedCleanupIsDelivered`, `EveryQsoEnds`, `WorkerDrains` and
`QueuedArrives`. Liveness under fairness and `ENABLED` are beyond this prover, and so
is induction over data; no module uses a RECURSIVE operator. The three
violated properties have TLC's counterexamples.

## 6. Plan

Done: the arm gate, the station agent, the ladder and the QSO
engine, the TX worker with halt, the rig link with its supervisor, the upload
outbox, and the proofs of their safety properties. Next, each with its proofs:

1. `QsoDesk`, composing the QSO loop's completion handler and automatic 73 with
   `QsoEngine`: is the number of extra 73s per contact bounded? A 73 after the
   rework grace opens a new QSO whose completion starts a new budget.
2. `KeepCallLedger`: charges and roll-backs of calls that never aired.
3. `QsoAir`: two stations and a lossy channel; both log or neither does, and
   where the ladder cannot recover (a lost RR73).

Not modelled: signal processing, audio, the rig's CAT protocol and network I/O,
the terminal interface, configuration parsing, the autonomous operator's choice
of calls and the audit file's hash chain. They are
numerical, pure I/O, a matter of priorities, or a property of bytes.
