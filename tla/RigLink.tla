------------------------------- MODULE RigLink -------------------------------
(***************************************************************************)
(* The rig-control component and its supervisor: the Hamlib command loop,  *)
(* the PTT watchdog beside it, the teardown that forces PTT off, the       *)
(* restart with its budget and TX inhibit, the live rig switch, and the    *)
(* two producers of PTT commands, as far as they key the rig.              *)
(*                                                                         *)
(* A generation is one start of the component.  Its command loop and its   *)
(* watchdog are tasks of their own: either may die alone, and a watchdog   *)
(* may outlive its generation as an orphan.  The clients of all            *)
(* generations dial one address, so every CAT command, an orphan's too,    *)
(* reaches the radio of the rigctld that answers there now.  A start may   *)
(* find that it drives another radio, or that none answers; the radio left *)
(* behind stays as it was.  A CAT command that fails may still have        *)
(* reached the radio.  Times are not counted: a watchdog's timer that runs *)
(* may run out at any tick, and a restart may have left the budget's       *)
(* window whenever the budget is asked.  What a handler of the supervisor   *)
(* keeps in its locals has its first value again when it is done with it.   *)
(***************************************************************************)
EXTENDS Integers, Sequences, FiniteSets

CONSTANTS MaxGenerations,  \* bound: starts of the component
          MaxKeyings,      \* bound: PTT-ons asked for by the two producers
          MaxRestarts,     \* MAX_RESTARTS_PER_WINDOW
          OffAttempts,     \* PTT-off attempts of a teardown
          InboxCap         \* capacity of the Hamlib channel

ASSUME RigLinkAssumption ==
  /\ MaxGenerations \in Nat \ {0}
  /\ MaxKeyings \in Nat
  /\ MaxRestarts \in Nat
  /\ OffAttempts \in Nat \ {0}
  /\ InboxCap \in Nat \ {0}

Generation == 1 .. MaxGenerations

VARIABLES
  rig,         \* the radio that rigctld drives is keyed
  cat,         \* a rigctld answers
  left,        \* a radio that it no longer drives was keyed when it was left
  inbox,       \* PTT commands in the Hamlib channel, oldest first
  worker,      \* where the TX worker is in keying a frame
  pttActive,   \* ptt_active
  manual,      \* the operator's PTT toggle
  keyings,     \* PTT-ons asked for so far (counted for the bound)
  gen,         \* hamlib_generation
  loop,        \* where the command loop of gen is
  opened,      \* the loop of gen has sent loop_ready
  ready,       \* hamlib_command_loop_ready
  pttSafe,     \* what the loop of gen has sent on ptt_safe
  since,       \* generations whose ptt_on_since is running
  dog,         \* where the watchdog of each generation is
  stop,        \* generations whose watchdog has been aborted
  children,    \* hamlib_children: the generation held, or 0
  orphans,     \* hamlib_orphans
  latch,       \* ptt_off_unconfirmed
  confirmed,   \* ptt_off_confirmations moved since teardown's snapshot
  inhibit,     \* tx_restart_inhibit
  leaked,      \* hamlib_leaked_tx_inhibits
  status,      \* component_status of Hamlib
  attempts,    \* restarts within the budget's window
  registered,  \* Hamlib has an entry in named_task_handles
  sup,         \* where the supervisor is
  cause,       \* what it is handling
  tries,       \* PTT-off attempt of the teardown
  offOk,       \* the teardown's PTT-off succeeded
  held,        \* PTT-offs drained from the channel, to be replayed
  switchFailed,\* history: the last switch of rigs was answered with an error
  untimed      \* history: why the rig may be keyed with no timer running

txVars    == <<worker, pttActive, manual, keyings>>
radioVars == <<cat, left>>
loopVars  == <<gen, radioVars, loop, opened, pttSafe>>
dogVars   == <<since, dog, stop>>
latchVars == <<latch, confirmed>>
muteVars  == <<inhibit, leaked, status, attempts, switchFailed>>
supVars   == <<children, orphans, registered, sup, cause, tries, offOk, held>>
vars == <<rig, inbox, txVars, loopVars, ready, dogVars, latchVars, muteVars,
          supVars, untimed>>

-----------------------------------------------------------------------------
Serving == {"serving", "on", "off"}
DogAlive(g) == dog[g] \notin {"none", "dead"}

\* The restart counter and the readiness flag are the two mutes of a keying
\* that belong to this component; the others may refuse at any time.
HardMuted == inhibit # 0 \/ ~ready

MayRestart == attempts < MaxRestarts

\* What the rig may be left at by a PTT command that was cut short or failed.
AfterFailed(want) == IF cat THEN {rig, want} ELSE {rig}
InFlight ==
  CASE loop = "on"                  -> AfterFailed(TRUE)
    [] loop \in {"off", "starting"} -> AfterFailed(FALSE)
    [] OTHER                        -> {rig}

\* The rig is off, and nothing on its way to it will key it.
TimedAfterOff == IF loop = "on" THEN untimed ELSE "no"

\* The rig has accepted PTT off: confirm_ptt_off.
ConfirmOff ==
  /\ cat
  /\ rig' = FALSE
  /\ confirmed' = TRUE
  /\ latch' = FALSE
  /\ untimed' = TimedAfterOff

\* A PTT-off attempt that returned an error.
FailOff ==
  /\ rig' \in AfterFailed(FALSE)
  /\ UNCHANGED <<latchVars, untimed>>

Init ==
  /\ rig = FALSE /\ cat = TRUE /\ left = FALSE /\ inbox = <<>>
  /\ worker = "idle" /\ pttActive = FALSE /\ manual = FALSE
  /\ keyings = 0
  /\ gen = 1 /\ loop = "serving" /\ opened = FALSE /\ ready = TRUE
  /\ pttSafe = "unsent"
  /\ since = {}
  /\ dog = [g \in Generation |-> IF g = 1 THEN "watch" ELSE "none"]
  /\ stop = {} /\ children = 1 /\ orphans = {}
  /\ latch = FALSE /\ confirmed = TRUE
  /\ inhibit = 0 /\ leaked = 0 /\ status = "Running" /\ attempts = 0
  /\ registered = TRUE /\ sup = "idle" /\ cause = "crash"
  /\ tries = 1 /\ offOk = FALSE /\ held = 0
  /\ switchFailed = FALSE /\ untimed = "no"

-----------------------------------------------------------------------------
(* The producers of PTT commands.                                          *)

\* Mutant: the channel has no bound.
SentPastCapacity(command) == Append(inbox, command)

\* A command that finds the channel full is dropped.
Sent(command) == IF Len(inbox) < InboxCap THEN Append(inbox, command) ELSE inbox

\* The worker raises ptt_active before its last gates.
WorkerRaises ==
  /\ worker = "idle" /\ keyings < MaxKeyings
  /\ worker' = "raised" /\ pttActive' = TRUE /\ keyings' = keyings + 1
  /\ UNCHANGED <<rig, inbox, manual, loopVars, ready, dogVars, latchVars,
                 muteVars, supVars, untimed>>

WorkerGate ==
  /\ worker = "raised"
  /\ \/ ~HardMuted /\ worker' = "gated" /\ UNCHANGED pttActive
     \/ worker' = "idle" /\ pttActive' = FALSE
  /\ UNCHANGED <<rig, inbox, manual, keyings, loopVars, ready, dogVars, latchVars,
                 muteVars, supVars, untimed>>

WorkerKeys ==
  /\ worker = "gated"
  /\ worker' = "onair" /\ inbox' = Sent("on")
  /\ UNCHANGED <<rig, pttActive, manual, keyings, loopVars, ready, dogVars, latchVars,
                 muteVars, supVars, untimed>>

WorkerUnkeys ==
  /\ worker = "onair"
  /\ worker' = "closing" /\ inbox' = Sent("off")
  /\ UNCHANGED <<rig, pttActive, manual, keyings, loopVars, ready, dogVars, latchVars,
                 muteVars, supVars, untimed>>

WorkerLowers ==
  /\ worker = "closing"
  /\ worker' = "idle" /\ pttActive' = FALSE
  /\ UNCHANGED <<rig, inbox, manual, keyings, loopVars, ready, dogVars, latchVars,
                 muteVars, supVars, untimed>>

\* TogglePtt: the toggle moves whether or not the command finds room, and
\* ptt_active is not touched.
TogglePtt ==
  /\ \/ manual /\ UNCHANGED keyings
     \/ ~manual /\ ~HardMuted /\ keyings < MaxKeyings /\ keyings' = keyings + 1
  /\ manual' = ~manual
  /\ inbox' = Sent(IF manual THEN "off" ELSE "on")
  /\ UNCHANGED <<rig, worker, pttActive, loopVars, ready, dogVars, latchVars,
                 muteVars, supVars, untimed>>

-----------------------------------------------------------------------------
(* The command loop.                                                       *)

\* The start that made the loop still holds the receivers of loop_ready and
\* ptt_safe; what is sent later is lost.
Listening == sup \in {"await", "release"}

\* Connect and force PTT off, then say whether an orphan may go.
LoopStartup ==
  /\ loop = "starting"
  /\ \/ /\ ConfirmOff
        /\ pttSafe' = IF Listening THEN "true" ELSE pttSafe
     \/ /\ FailOff
        /\ pttSafe' = CASE ~Listening                    -> pttSafe
                        [] Listening /\ pttSafe = "timed" -> "true"
                        [] OTHER                         -> "false"
  /\ loop' = "opening"
  /\ UNCHANGED <<inbox, txVars, gen, radioVars, opened, ready, dogVars, muteVars, supVars>>

\* publish_loop_readiness_if_children_alive; without its children the loop
\* bails at its first turn.
LoopOpen ==
  /\ loop = "opening"
  /\ opened' = (Listening /\ DogAlive(gen))
  /\ ready' = DogAlive(gen)
  /\ loop' = IF DogAlive(gen) THEN "serving" ELSE "dead"
  /\ UNCHANGED <<rig, inbox, txVars, gen, radioVars, pttSafe, dogVars, latchVars,
                 muteVars, supVars, untimed>>

\* SetPtt up to the CAT command: the watchdog's timer moves first.
LoopTakes ==
  /\ loop = "serving" /\ DogAlive(gen) /\ inbox # <<>>
  /\ inbox' = Tail(inbox)
  /\ \/ /\ Head(inbox) = "on"
        /\ inhibit = 0
        /\ since' = since \cup {gen}
        /\ loop' = "on" /\ untimed' = "no"
     \/ /\ Head(inbox) = "on"          \* inhibited, or the gain gate is shut
        /\ UNCHANGED <<since, loop, untimed>>
     \/ /\ Head(inbox) = "off"
        /\ since' = since \ {gen}
        /\ loop' = "off" /\ UNCHANGED untimed
  /\ UNCHANGED <<rig, txVars, gen, radioVars, opened, pttSafe, ready, dog, stop,
                 latchVars, muteVars, supVars>>

LoopKeys ==
  /\ loop = "on"
  /\ rig' \in AfterFailed(TRUE) /\ loop' = "serving"
  /\ UNCHANGED <<inbox, txVars, gen, radioVars, opened, pttSafe, ready, dogVars,
                 latchVars, muteVars, supVars, untimed>>

LoopUnkeys ==
  /\ loop = "off"
  /\ \/ ConfirmOff
     \/ /\ rig' \in AfterFailed(FALSE)
        /\ untimed' = IF rig' THEN "failed" ELSE "no"
        /\ UNCHANGED latchVars
  /\ loop' = "serving"
  /\ UNCHANGED <<inbox, txVars, gen, radioVars, opened, pttSafe, ready, dogVars,
                 muteVars, supVars>>

\* The loop ends with an error once one of its children has finished.
LoopBails ==
  /\ loop = "serving" /\ ~DogAlive(gen)
  /\ loop' = "dead" /\ ready' = FALSE
  /\ UNCHANGED <<rig, inbox, txVars, gen, radioVars, opened, pttSafe, dogVars, latchVars,
                 muteVars, supVars, untimed>>

LoopCrash ==
  /\ gen < MaxGenerations
  /\ loop # "dead"
  /\ rig' \in InFlight
  /\ loop' = "dead" /\ ready' = FALSE
  /\ UNCHANGED <<inbox, txVars, gen, radioVars, opened, pttSafe, dogVars, latchVars,
                 muteVars, supVars, untimed>>

-----------------------------------------------------------------------------
(* The watchdogs.  Abort takes effect at an await: never between counting  *)
(* a confirmation and clearing the latch.                                  *)

DogFires(g) ==
  /\ dog[g] = "watch" /\ g \in since \ stop
  /\ dog' = [dog EXCEPT ![g] = "cutting"]
  /\ UNCHANGED <<rig, inbox, txVars, loopVars, ready, since, stop, latchVars,
                 muteVars, supVars, untimed>>

DogCuts(g) ==
  /\ dog[g] = "cutting" /\ g \notin stop
  /\ \/ /\ cat /\ rig' = FALSE /\ untimed' = TimedAfterOff
        /\ dog' = [dog EXCEPT ![g] = "count"]
     \/ /\ rig' \in AfterFailed(FALSE) /\ UNCHANGED untimed
        /\ dog' = [dog EXCEPT ![g] = "watch"]
  /\ UNCHANGED <<inbox, txVars, loopVars, ready, since, stop, latchVars,
                 muteVars, supVars>>

\* The rig has been keyed again since the watchdog's PTT-off.
Rekeyed == rig \/ loop = "on"

DogCounts(g) ==
  /\ dog[g] = "count"
  /\ pttActive' = FALSE /\ confirmed' = TRUE
  /\ untimed' = IF Rekeyed THEN "raced" ELSE untimed
  /\ dog' = [dog EXCEPT ![g] = "swap"]
  /\ UNCHANGED <<rig, inbox, worker, manual, keyings, loopVars, ready, since,
                 stop, latch, muteVars, supVars>>

DogSwaps(g) ==
  /\ dog[g] = "swap"
  /\ latch' = FALSE
  /\ untimed' = IF Rekeyed THEN "raced" ELSE untimed
  /\ dog' = [dog EXCEPT ![g] = "clear"]
  /\ UNCHANGED <<rig, inbox, txVars, loopVars, ready, since, stop, confirmed,
                 muteVars, supVars>>

DogClears(g) ==
  /\ dog[g] = "clear" /\ g \notin stop
  /\ since' = since \ {g}
  /\ dog' = [dog EXCEPT ![g] = "watch"]
  /\ untimed' = IF g = gen /\ Rekeyed THEN "raced" ELSE untimed
  /\ UNCHANGED <<rig, inbox, txVars, loopVars, ready, stop, latchVars,
                 muteVars, supVars>>

\* Mutant: the guard does not ask whose generation it is.
ReadyAfterAnyDrop(g) == FALSE

\* HamlibLoopReadyGuard: a watchdog that ends takes readiness with it only
\* while its generation is the current one.
ReadyAfterDrop(g) == ready /\ g # gen

DogEnds(g) ==
  /\ dog[g] \in {"watch", "cutting", "clear"}
  /\ g \in stop \/ gen < MaxGenerations
  /\ rig' \in IF dog[g] = "cutting" THEN AfterFailed(FALSE) ELSE {rig}
  /\ dog' = [dog EXCEPT ![g] = "dead"]
  /\ ready' = ReadyAfterDrop(g)
  /\ UNCHANGED <<inbox, txVars, loopVars, since, stop, latchVars, muteVars,
                 supVars, untimed>>

-----------------------------------------------------------------------------
(* The supervisor: the health pass over finished tasks and the rig switch. *)

\* handle_finished_task up to the teardown.  A failure already recorded,
\* with no budget left, is not handled again.
HealthPass ==
  /\ sup = "idle" /\ registered /\ loop = "dead"
  /\ registered' = FALSE
  /\ \/ /\ status # "Running" /\ ~MayRestart
        /\ UNCHANGED <<inhibit, sup, cause>>
     \/ /\ status = "Running" \/ MayRestart
        /\ inhibit' = inhibit + 1
        /\ sup' = "orphans" /\ cause' = "crash"
  /\ UNCHANGED <<rig, inbox, txVars, loopVars, ready, dogVars, latchVars,
                 leaked, status, attempts, switchFailed, children, orphans,
                 tries, offOk, held, untimed>>

\* handle_hamlib_reconnect_request: ptt_active is read once ...
SwitchAsked ==
  /\ sup = "idle" /\ gen < MaxGenerations
  /\ ~pttActive
  /\ sup' = "switch"
  /\ UNCHANGED <<rig, inbox, txVars, loopVars, ready, dogVars, latchVars,
                 muteVars, children, orphans, registered, cause, tries, offOk,
                 held, untimed>>

\* ... and then TX is inhibited and the loop aborted.
SwitchStops ==
  /\ sup = "switch"
  /\ inhibit' = inhibit + 1
  /\ registered' = FALSE
  /\ IF registered
     THEN rig' \in InFlight /\ loop' = "dead" /\ ready' = FALSE
     ELSE UNCHANGED <<rig, loop, ready>>
  /\ sup' = "orphans" /\ cause' = "switch"
  /\ UNCHANGED <<inbox, txVars, gen, radioVars, opened, pttSafe, dogVars, latchVars,
                 leaked, status, attempts, switchFailed, children, orphans,
                 tries, offOk, held, untimed>>

\* teardown_hamlib: the orphans of earlier teardowns go first.
AbortOrphans ==
  /\ sup = "orphans"
  /\ stop' = stop \cup orphans /\ orphans' = {}
  /\ confirmed' = FALSE
  /\ tries' = 1 /\ offOk' = FALSE
  /\ sup' = "off"
  /\ UNCHANGED <<rig, inbox, txVars, loopVars, ready, since, dog, latch,
                 muteVars, children, registered, cause, held, untimed>>

ForceOff ==
  /\ sup = "off"
  /\ \/ /\ ConfirmOff
        /\ pttActive' = FALSE
        /\ offOk' = TRUE
        /\ sup' = "reap"
        /\ UNCHANGED tries
     \/ /\ FailOff
        /\ IF tries < OffAttempts
           THEN tries' = tries + 1 /\ UNCHANGED sup
           ELSE sup' = "reap" /\ UNCHANGED tries
        /\ UNCHANGED <<pttActive, offOk>>
  /\ UNCHANGED <<inbox, worker, manual, keyings, loopVars, ready, dogVars, muteVars,
                 children, orphans, registered, cause, held>>

\* Mutant: the watchdog is aborted whether or not PTT-off succeeded.
ReapChildrenAnyway ==
  /\ sup = "reap"
  /\ children' = 0
  /\ stop' = stop \cup ({children} \ {0})
  /\ sup' = "drain"
  /\ UNCHANGED <<rig, inbox, txVars, loopVars, ready, since, dog, latchVars,
                 muteVars, orphans, registered, cause, tries, offOk, held,
                 untimed>>

\* The children are taken: the watchdog goes with a confirmed PTT-off and is
\* kept, with the latch raised, without one.
ReapChildren ==
  /\ sup = "reap"
  /\ children' = 0 /\ tries' = 1 /\ offOk' = FALSE
  /\ \/ /\ children = 0
        /\ sup' = "drain"
        /\ UNCHANGED <<stop, orphans, latch>>
     \/ /\ children # 0 /\ offOk
        /\ stop' = stop \cup {children}
        /\ sup' = "drain"
        /\ UNCHANGED <<orphans, latch>>
     \/ /\ children # 0 /\ ~offOk
        /\ orphans' = orphans \cup {children}
        /\ latch' = TRUE
        /\ sup' = "latched"
        /\ UNCHANGED stop
  /\ UNCHANGED <<rig, inbox, txVars, loopVars, ready, since, dog, confirmed,
                 muteVars, registered, cause, held, untimed>>

\* Mutant: a confirmation during the attempts is overwritten.
LatchAfterRecheckKept == latch

\* latch_ptt_off_unconfirmed_unless_confirmed_since: a confirmation that came
\* in during the attempts wins over the latch.
LatchAfterRecheck == latch /\ ~confirmed

RecheckLatch ==
  /\ sup = "latched"
  /\ latch' = LatchAfterRecheck
  /\ sup' = "drain"
  /\ UNCHANGED <<rig, inbox, txVars, loopVars, ready, dogVars, confirmed,
                 muteVars, children, orphans, registered, cause, tries, offOk,
                 held, untimed>>

\* A stale key-up is thrown away, an unkey is kept for the next loop.
DrainChannel ==
  /\ sup = "drain"
  /\ held' = Cardinality({i \in DOMAIN inbox : inbox[i] = "off"})
  /\ inbox' = <<>>
  /\ sup' = "replay"
  /\ UNCHANGED <<rig, txVars, loopVars, ready, dogVars, latchVars, muteVars,
                 children, orphans, registered, cause, tries, offOk, untimed>>

\* replay_or_fallback: an unkey that finds no room goes to the rig directly.
ReplayUnkey ==
  /\ sup = "replay" /\ held > 0
  /\ held' = held - 1
  /\ \/ /\ Len(inbox) < InboxCap
        /\ inbox' = Append(inbox, "off")
        /\ UNCHANGED <<rig, pttActive, latchVars, untimed>>
     \/ /\ Len(inbox) = InboxCap
        /\ \/ ConfirmOff /\ pttActive' = FALSE
           \/ FailOff /\ UNCHANGED pttActive
        /\ UNCHANGED inbox
  /\ UNCHANGED <<worker, manual, keyings, loopVars, ready, dogVars, muteVars, children,
                 orphans, registered, sup, cause, tries, offOk>>

\* Hamlib is given up: the inhibit is kept for good.
LeakInhibit ==
  /\ leaked' = leaked + 1
  /\ UNCHANGED inhibit

DecideRestart ==
  /\ sup = "replay" /\ held = 0
  /\ \/ /\ cause = "switch"
        /\ sup' = "start"
        /\ UNCHANGED <<inhibit, leaked, status, attempts>>
     \/ /\ cause = "crash" /\ MayRestart
        /\ attempts' = attempts + 1
        /\ sup' = "start"
        /\ UNCHANGED <<inhibit, leaked, status>>
     \/ /\ cause = "crash" /\ ~MayRestart
        /\ status' = "Failed"
        /\ LeakInhibit
        /\ sup' = "idle"
        /\ UNCHANGED attempts
  /\ UNCHANGED <<rig, inbox, txVars, loopVars, ready, dogVars, latchVars,
                 switchFailed, children, orphans, registered, cause, tries,
                 offOk, held, untimed>>

\* The supervisor is about to ask whether it may restart.
BudgetIsRead ==
  \/ sup = "idle" /\ registered /\ loop = "dead"
  \/ sup = "replay" /\ held = 0 /\ cause = "crash"

\* Restarts leave the budget's window one by one; they are pruned when the
\* budget is asked.
AgeOut ==
  /\ BudgetIsRead
  /\ attempts > 0
  /\ attempts' = attempts - 1
  /\ UNCHANGED <<rig, inbox, txVars, loopVars, ready, dogVars, latchVars,
                 inhibit, leaked, status, switchFailed, supVars, untimed>>

\* The rigctld of the previous generation is gone: a rig switch has killed it,
\* or it died.  No watchdog reaches its radio any more.
DetachRadio ==
  /\ cat' = FALSE
  /\ left' = (left \/ rig)
  /\ rig' = FALSE /\ untimed' = "no"

\* The new generation's client finds the rigctld and the radio there were, or
\* none because none could be spawned, or a new one for another radio, which
\* may be one that was left keyed before.
AttachRadio ==
  \/ UNCHANGED <<rig, radioVars, untimed>>
  \/ DetachRadio
  \/ /\ cat' = TRUE
     /\ left' = (left \/ rig)
     /\ rig' \in {FALSE, left}
     /\ untimed' = IF rig' THEN "left" ELSE "no"

\* start_hamlib_component.  A rig that is still keyed for the worker starts
\* with its timer already running.  (As a bound, the last generation
\* always starts, and finds a rigctld.)
StartLink ==
  /\ sup = "start"
  /\ AttachRadio
  /\ cat' \/ gen + 1 < MaxGenerations
  /\ gen' = gen + 1
  /\ loop' = "starting" /\ opened' = FALSE /\ ready' = FALSE
  /\ pttSafe' = IF pttActive THEN "timed" ELSE "unsent"
  /\ dog' = [dog EXCEPT ![gen + 1] = "watch"]
  /\ since' = IF pttActive THEN since \cup {gen + 1} ELSE since
  /\ children' = gen + 1 /\ registered' = TRUE
  /\ sup' = "await"
  /\ UNCHANGED <<inbox, txVars, stop, latchVars, muteVars, orphans, cause,
                 tries, offOk, held>>

\* The loop's task is registered, and aborted because it has not published
\* its children in time.
StartBails ==
  /\ sup = "start" /\ gen + 1 < MaxGenerations
  /\ AttachRadio
  /\ gen' = gen + 1
  /\ opened' = FALSE /\ ready' = FALSE /\ pttSafe' = "unsent"
  /\ registered' = TRUE
  /\ sup' = "failed"
  /\ UNCHANGED <<inbox, txVars, loop, dogVars, latchVars, muteVars, children,
                 orphans, cause, tries, offOk, held>>

\* The port in the configuration, which an operator may have changed since the
\* last start, does not look safe: no loop is started, and no error returned.
StartRefused ==
  /\ sup = "start" /\ gen + 1 < MaxGenerations
  /\ DetachRadio \/ UNCHANGED <<rig, radioVars, untimed>>
  /\ gen' = gen + 1 /\ ready' = FALSE
  /\ sup' = "done"
  /\ UNCHANGED <<inbox, txVars, loop, opened, pttSafe, dogVars, latchVars,
                 muteVars, children, orphans, registered, cause, tries, offOk,
                 held>>

\* classify_loop_ready: SenderDropped
LoopDropped == ~opened /\ loop = "dead"

\* The wait for loop_ready: a loop that died before it is an error, one that
\* is merely slow is not.
AwaitLoop ==
  /\ sup = "await"
  /\ sup' = IF LoopDropped THEN "failed" ELSE "release"
  /\ UNCHANGED <<rig, inbox, txVars, loopVars, ready, dogVars, latchVars,
                 muteVars, children, orphans, registered, cause, tries, offOk,
                 held, untimed>>

\* Mutant: a replacement watchdog is enough.
OrphanReleaseIsSafeEarly == DogAlive(children)

\* orphan_release_is_safe
OrphanReleaseIsSafe == pttSafe = "true" /\ DogAlive(children)

ReleaseOrphans ==
  /\ sup = "release"
  /\ IF OrphanReleaseIsSafe
     THEN stop' = stop \cup orphans /\ orphans' = {}
     ELSE UNCHANGED <<stop, orphans>>
  /\ sup' = "done" /\ opened' = FALSE /\ pttSafe' = "unsent"
  /\ UNCHANGED <<rig, inbox, txVars, gen, radioVars, loop, ready, since, dog, latchVars,
                 muteVars, children, registered, cause, tries, offOk, held,
                 untimed>>

\* The inhibit of this restart is dropped, and every leaked one paid back.
RepayInhibit ==
  /\ inhibit' = inhibit - 1 - leaked
  /\ leaked' = 0

RestartDone ==
  /\ sup \in {"done", "failed"} /\ cause = "crash"
  /\ IF sup = "done"
     THEN status' = "Running" /\ RepayInhibit /\ switchFailed' = FALSE
     ELSE status' = "Failed" /\ LeakInhibit /\ UNCHANGED switchFailed
  /\ sup' = "idle" /\ cause' = "crash"
  /\ UNCHANGED <<rig, inbox, txVars, loopVars, ready, dogVars, latchVars,
                 attempts, children, orphans, registered, tries, offOk,
                 held, untimed>>

\* Mutant: a switch that succeeds repays only its own inhibit.
SwitchRepaysItsOwn ==
  /\ inhibit' = inhibit - 1
  /\ UNCHANGED leaked

\* A switch that succeeds pays like a restart.
SwitchRepays == RepayInhibit

\* The switch is a success only with the loop ready and CAT connected.
SwitchDone ==
  /\ sup \in {"done", "failed"} /\ cause = "switch"
  /\ \/ /\ sup = "done" /\ ready /\ cat
        /\ SwitchRepays /\ switchFailed' = FALSE
     \/ /\ LeakInhibit /\ switchFailed' = TRUE
  /\ sup' = "idle" /\ cause' = "crash"
  /\ UNCHANGED <<rig, inbox, txVars, loopVars, ready, dogVars, latchVars,
                 status, attempts, children, orphans, registered, tries,
                 offOk, held, untimed>>

-----------------------------------------------------------------------------
Worker == WorkerRaises \/ WorkerGate \/ WorkerKeys \/ WorkerUnkeys \/ WorkerLowers
Loop == LoopStartup \/ LoopOpen \/ LoopTakes \/ LoopKeys \/ LoopUnkeys \/ LoopBails
Dog(g) == DogFires(g) \/ DogCuts(g) \/ DogCounts(g) \/ DogSwaps(g) \/ DogClears(g)
Teardown == AbortOrphans \/ ForceOff \/ ReapChildren \/ RecheckLatch
              \/ DrainChannel \/ ReplayUnkey
Restart == DecideRestart \/ StartLink \/ StartBails \/ StartRefused \/ AwaitLoop
             \/ ReleaseOrphans \/ RestartDone \/ SwitchDone

Next ==
  \/ Worker \/ TogglePtt
  \/ Loop \/ LoopCrash
  \/ \E g \in Generation : Dog(g) \/ DogEnds(g)
  \/ HealthPass \/ SwitchAsked \/ SwitchStops \/ Teardown \/ Restart \/ AgeOut

Spec == Init /\ [][Next]_vars

-----------------------------------------------------------------------------
\* The state is well typed; the Hamlib channel keeps its capacity, a teardown
\* makes no more attempts than it may, and the inhibit counter never wraps
\* below zero.
TypeOK ==
  /\ rig \in BOOLEAN /\ cat \in BOOLEAN /\ left \in BOOLEAN
  /\ inbox \in Seq({"on", "off"}) /\ Len(inbox) <= InboxCap
  /\ worker \in {"idle", "raised", "gated", "onair", "closing"}
  /\ pttActive \in BOOLEAN /\ manual \in BOOLEAN
  /\ keyings \in 0 .. MaxKeyings
  /\ gen \in Generation
  /\ loop \in {"starting", "opening", "dead"} \cup Serving
  /\ opened \in BOOLEAN /\ ready \in BOOLEAN
  /\ pttSafe \in {"timed", "unsent", "true", "false"}
  /\ since \subseteq Generation
  /\ dog \in [Generation -> {"none", "watch", "cutting", "count", "swap",
                              "clear", "dead"}]
  /\ stop \subseteq Generation
  /\ children \in 0 .. MaxGenerations /\ orphans \subseteq Generation
  /\ latch \in BOOLEAN /\ confirmed \in BOOLEAN
  /\ inhibit \in Nat /\ leaked \in Nat
  /\ status \in {"Running", "Failed"} /\ attempts \in 0 .. MaxRestarts
  /\ registered \in BOOLEAN
  /\ sup \in {"idle", "switch", "orphans", "off", "reap", "latched", "drain",
              "replay", "start", "await", "release", "done", "failed"}
  /\ cause \in {"crash", "switch"}
  /\ tries \in 1 .. OffAttempts /\ offOk \in BOOLEAN
  /\ held \in 0 .. InboxCap
  /\ switchFailed \in BOOLEAN /\ untimed \in {"no", "failed", "raced", "left"}

\* A watchdog that will still act on its timer.
Guarded == \E g \in since \ stop : DogAlive(g)

\* Nothing is left to do for the loop, the supervisor or the channel.
Settled ==
  /\ sup = "idle"
  /\ ~(registered /\ (loop = "dead" \/ ~DogAlive(gen)))
  /\ loop \in {"serving", "dead"}
  /\ \A i \in DOMAIN inbox : inbox[i] # "off"

\* Once Hamlib has failed and nothing of it is left to restart, TX stays
\* inhibited: what health.rs's tests ask of a link whose budget is exhausted.
DeadLinkIsInhibited ==
  sup = "idle" /\ ~registered /\ status = "Failed" => inhibit > 0

\* What is left of a link that is gone has been torn down.
TornDown == ~registered => children = 0

\* A radio that rigctld drives and that stays keyed is either timed by a live
\* watchdog or reported as possibly keyed, across crashes of the loop and of
\* the watchdog, failed teardowns, refused starts and restarts.  Three ways of
\* being keyed with no timer are exempt: a PTT-off of the loop that fails, a
\* watchdog that clears the timer of a rig that was keyed again behind its
\* PTT-off, and a radio that was already keyed when a switch came back to it.
\* A link whose crash was taken for one already handled had no teardown at
\* all: that is DeadLinkIsInhibited's.
KeyedIsKnown ==
  rig /\ Settled /\ TornDown => Guarded \/ latch \/ untimed # "no"

\* A radio that a start leaves behind keyed is reported at that moment, unless
\* its timer had been stopped in one of the ways KeyedIsKnown exempts.  It need
\* not stay reported: the next radio's first PTT-off clears the warning.
LeftIsReported ==
  [][rig /\ left' /\ ~left => latch \/ untimed # "no"]_vars

\* The stuck-PTT warning does not outlive a PTT-off that the rig confirmed
\* after the teardown began, whichever task got it.
LatchIsTrue ==
  latch /\ confirmed => sup = "latched" \/ \E g \in Generation : dog[g] = "swap"

\* Every inhibit of TX is owed: to the restart under way, to a Hamlib that
\* was given up, or to a rig switch that was answered with an error.
InhibitIsOwed ==
  /\ inhibit = leaked + (IF sup \in {"idle", "switch"} THEN 0 ELSE 1)
  /\ sup = "idle" /\ inhibit > 0 => status = "Failed" \/ switchFailed

\* Readiness is shown exactly while the current loop takes commands and its
\* watchdog lives, whatever becomes of the watchdogs of earlier generations.
ReadyIsTrue == ready <=> loop \in Serving /\ DogAlive(gen)

\* A restart never aborts the last watchdog that times the radio that rigctld
\* drives while it is keyed, unless the new loop has died or has stopped its
\* own timer for a PTT-off.
ReleaseKeepsWatch ==
  [][(sup = "release" /\ sup' # "release" /\ rig /\ Guarded
        /\ untimed = "no" /\ loop \notin {"off", "dead"}) => Guarded']_vars

=============================================================================
