--------------------------- MODULE RigLinkProofs ----------------------------
(***************************************************************************)
(* Proofs about the rig-control component, for every number of             *)
(* generations, keyings, restarts and PTT-off attempts and every capacity  *)
(* of the channel: what the inhibit counter, the readiness flag and the    *)
(* stuck-PTT warning mean, and that a rig left keyed is timed or reported. *)
(***************************************************************************)
EXTENDS RigLink, FiniteSetTheorems, TLAPS

\* The supervisor has stopped a generation and not started the next.
Torn == {"orphans", "off", "reap", "latched", "drain", "replay", "start"}

\* A generation is being replaced only while another may follow; it has no
\* registered loop meanwhile, and a loop that is not registered is dead. The
\* registered loop's watchdog is the one held, and nobody has aborted it, unless
\* the start gave up on the loop before it had one; the last generation is never
\* given up.
Order ==
  /\ sup \in Torn \cup {"switch"} => gen < MaxGenerations
  /\ sup \in Torn => ~registered
  /\ sup \in {"latched", "drain", "replay", "start"} => children = 0
  /\ sup \in {"await", "release"} => registered /\ children = gen
  /\ ~registered => loop = "dead"
  /\ registered => gen \notin stop /\ gen \notin orphans
  /\ registered => children = gen \/ (children = 0 /\ loop = "dead")
  /\ registered /\ gen = MaxGenerations => loop # "dead" /\ DogAlive(gen)

\* Nothing is known of a generation that has not started.
Past ==
  /\ \A g \in since \cup stop \cup orphans : g <= gen
  /\ children <= gen
  /\ \A g \in Generation : g > gen => dog[g] = "none"

\* The inhibit holds the loop: with one, no PTT-on is on its way to the rig.
InhibitHolds == inhibit > 0 => loop # "on"

\* A rig that may be keyed although its timer is not running has been reported.
Reported == latch \/ untimed # "no"

\* Under an inhibit, or with the children of a torn-down generation gone, a rig
\* that is still keyed has been reported, once the teardown has made up its
\* mind about it.
StuckIsReported ==
  /\ (rig /\ inhibit > 0 /\ sup \notin {"orphans", "off", "reap"}) => Reported
  /\ (rig /\ children = 0) => Reported

\* A live loop's rig is timed by its generation, or reported.
KeyedIsTimed ==
  /\ (rig /\ loop \notin {"off", "dead"}) => gen \in since \/ Reported
  /\ loop = "on" => gen \in since \/ untimed # "no"

\* What the teardown knows is true: a PTT-off it has succeeded with, or seen
\* confirmed, has unkeyed the rig.
TeardownIsTrue ==
  /\ sup = "off" => ~offOk
  /\ (sup = "reap" /\ offOk) => ~rig
  /\ (sup \in {"off", "reap", "latched"} /\ confirmed) => ~rig \/ untimed # "no"
  /\ sup = "latched" => latch \/ ~rig \/ untimed # "no"

\* What ptt_safe promises the supervisor: a rig that is still keyed is timed by
\* the new generation.
SafeIsTimed ==
  (/\ sup \in {"await", "release"} /\ rig /\ untimed = "no"
   /\ loop \notin {"off", "dead"} /\ pttSafe \in {"true", "timed"}) => gen \in since

RigInv ==
  /\ TypeOK /\ Order /\ Past
  /\ InhibitIsOwed /\ InhibitHolds /\ ReadyIsTrue /\ LatchIsTrue
  /\ StuckIsReported /\ KeyedIsTimed /\ TeardownIsTrue /\ SafeIsTimed

-----------------------------------------------------------------------------
(* What the tasks other than the supervisor may change. *)

\* A step of a producer, or of time, touches none of the rig's bookkeeping.
Quiet == UNCHANGED <<rig, loopVars, ready, dogVars, latchVars, inhibit, leaked, status,
                     switchFailed, supVars, untimed>>

\* The producers of PTT commands and the budget's window are quiet.
LEMMA QuietSteps ==
  ASSUME Worker \/ TogglePtt \/ AgeOut \/ UNCHANGED vars
  PROVE  Quiet
  BY DEF Worker, WorkerRaises, WorkerGate, WorkerKeys, WorkerUnkeys, WorkerLowers,
     TogglePtt, AgeOut, vars, muteVars, loopVars, radioVars, Quiet

\* The loop acts while it lives, takes a PTT-on only uninhibited, and dies only
\* while another generation may follow or when its watchdog has.
LEMMA LoopSteps ==
  ASSUME Loop \/ LoopCrash
  PROVE  /\ UNCHANGED <<txVars, gen, radioVars, dog, stop, muteVars, supVars>>
         /\ loop # "dead"
         /\ since' \in {since, since \cup {gen}, since \ {gen}}
         /\ loop' = "dead" => gen < MaxGenerations \/ ~DogAlive(gen)
         /\ loop' = "on" => inhibit = 0
  BY DEF Loop, LoopStartup, LoopOpen, LoopTakes, LoopKeys, LoopUnkeys, LoopBails, LoopCrash,
     DogAlive, dogVars, loopVars

\* A watchdog acts while it lives, on its own state, and never touches the
\* loop's or the supervisor's.
LEMMA DogSteps ==
  ASSUME TypeOK, NEW g \in Generation, Dog(g) \/ DogEnds(g)
  PROVE  /\ UNCHANGED <<loopVars, stop, muteVars, supVars>>
         /\ DogAlive(g) /\ dog'[g] # "none" /\ since' \in {since, since \ {g}}
         /\ \A h \in Generation : h # g => dog'[h] = dog[h]
         /\ \/ dog'[g] # "dead" /\ ready' = ready
            \/ /\ dog'[g] = "dead" /\ ready' = (ready /\ g # gen)
               /\ g \in stop \/ gen < MaxGenerations
  BY DEF Dog, DogFires, DogCuts, DogCounts, DogSwaps, DogClears, DogEnds, DogAlive,
     ReadyAfterDrop, TypeOK, dogVars, latchVars, loopVars

\* A PTT-off command leaves the rig keyed only if it failed, and then neither
\* the warning nor the timer's record moves.
LEMMA OffSteps ==
  ASSUME rig \in BOOLEAN,
         LoopStartup \/ ForceOff \/ ReplayUnkey \/ \E g \in Generation : DogCuts(g)
  PROVE  /\ rig' => rig /\ UNCHANGED <<latch, untimed, confirmed>>
         /\ loop = "on" => UNCHANGED untimed
<1>1. ASSUME ConfirmOff
      PROVE  ~rig' /\ (loop = "on" => UNCHANGED untimed)
  BY <1>1 DEF ConfirmOff, TimedAfterOff
<1>2. ASSUME rig' \in AfterFailed(FALSE)
      PROVE  rig' => rig
  BY <1>2 DEF AfterFailed
<1>3. ASSUME FailOff
      PROVE  (rig' => rig) /\ UNCHANGED <<latch, untimed, confirmed>>
  BY <1>2, <1>3 DEF FailOff, latchVars
<1>4. CASE LoopStartup
  BY <1>1, <1>3, <1>4 DEF LoopStartup
<1>5. CASE ForceOff
  BY <1>1, <1>3, <1>5 DEF ForceOff
<1>6. CASE ReplayUnkey
  BY <1>1, <1>3, <1>6 DEF ReplayUnkey, latchVars
<1>7. CASE \E g \in Generation : DogCuts(g)
  BY <1>2, <1>7 DEF DogCuts, TimedAfterOff, latchVars
<1>8. QED
  BY <1>4, <1>5, <1>6, <1>7

\* A radio that a start finds keyed with its timer not excused is the radio that
\* there was before, as it was.
LEMMA AttachSteps ==
  ASSUME AttachRadio
  PROVE  /\ rig' /\ untimed' = "no" => rig /\ untimed = "no"
         /\ untimed' \in {untimed, "no", "left"}
         /\ cat' \in {cat, TRUE, FALSE} /\ left' \in {left, left \/ rig}
         /\ rig' \in {rig, FALSE, left}
<1>1. CASE UNCHANGED <<rig, radioVars, untimed>>
  BY <1>1 DEF radioVars
<1>2. CASE DetachRadio
  BY <1>2 DEF DetachRadio
<1>3. CASE cat' = TRUE /\ left' = (left \/ rig) /\ rig' \in {FALSE, left}
             /\ untimed' = IF rig' THEN "left" ELSE "no"
  BY <1>3
<1>4. QED
  BY <1>1, <1>2, <1>3 DEF AttachRadio

\* Every start attaches to some radio, and leaves the warning, the inhibit and
\* the watchdogs that are to stop as they were.
LEMMA StartSteps ==
  ASSUME StartLink \/ StartBails \/ StartRefused
  PROVE  /\ AttachRadio /\ sup = "start" /\ gen' = gen + 1
         /\ sup' \in {"await", "failed", "done"}
         /\ rig' /\ untimed' = "no" => rig /\ untimed = "no"
         /\ UNCHANGED <<latch, confirmed, inhibit, leaked, stop, orphans>>
<1>1. AttachRadio
  BY DEF StartLink, StartBails, StartRefused, AttachRadio
<1>2. sup = "start" /\ gen' = gen + 1 /\ sup' \in {"await", "failed", "done"}
  BY DEF StartLink, StartBails, StartRefused
<1>3. UNCHANGED <<latch, confirmed, inhibit, leaked, stop, orphans>>
  BY DEF StartLink, StartBails, StartRefused, latchVars, muteVars, dogVars
<1>4. QED
  BY <1>1, <1>2, <1>3, AttachSteps

\* A loop that is cut off keys the rig only in the middle of a PTT-on.
LEMMA CutShort ==
  ASSUME rig \in BOOLEAN, rig' \in InFlight
  PROVE  rig' => rig \/ loop = "on"
  BY DEF InFlight, AfterFailed

\* The positions of a queue can be counted.
LEMMA CountTo ==
  ASSUME NEW n \in Nat
  PROVE  IsFiniteSet(1 .. n) /\ Cardinality(1 .. n) = n
<1>1. 1 \in Int /\ n \in Int
  OBVIOUS
<1>2. IsFiniteSet(1 .. n) /\ Cardinality(1 .. n) = IF 1 > n THEN 0 ELSE n - 1 + 1
  BY <1>1, FS_Interval
<1>3. (IF 1 > n THEN 0 ELSE n - 1 + 1) = n
  OBVIOUS
<1>4. QED
  BY <1>2, <1>3

-----------------------------------------------------------------------------
(* Generations, the inhibit, readiness and the warning. *)

\* The supervisor replaces generations one at a time.
LEMMA OrderStep ==
  ASSUME TypeOK, Order, Past, [Next]_vars
  PROVE  Order'
<1> USE RigLinkAssumption DEF txVars, radioVars, loopVars, dogVars, latchVars, muteVars,
     supVars
<1>1. CASE Quiet
  BY <1>1 DEF Quiet, Order, TypeOK, Past, Torn, DogAlive, Generation, Serving
<1>2. CASE Loop \/ LoopCrash
  BY <1>2, LoopSteps DEF Order, TypeOK, Past, Torn, DogAlive, Generation, Serving
<1>3. ASSUME NEW g \in Generation, Dog(g) \/ DogEnds(g)
      PROVE  Order'
  BY <1>3, DogSteps DEF Order, TypeOK, Past, Torn, DogAlive, Generation, Serving
<1>4. CASE ReplayUnkey
  BY <1>4 DEF ReplayUnkey, ConfirmOff, FailOff, TimedAfterOff, AfterFailed, Order,
     TypeOK, Past, Torn, DogAlive, Generation, Serving
<1>5. CASE HealthPass
  BY <1>5 DEF HealthPass, MayRestart, Order, TypeOK, Past, Torn, DogAlive, Generation,
     Serving
<1>6. CASE SwitchAsked
  BY <1>6 DEF SwitchAsked, Order, TypeOK, Past, Torn, DogAlive, Generation, Serving
<1>7. CASE SwitchStops
  BY <1>7 DEF SwitchStops, InFlight, AfterFailed, Order, TypeOK, Past, Torn, DogAlive,
     Generation, Serving
<1>8. CASE AbortOrphans
  BY <1>8 DEF AbortOrphans, Order, TypeOK, Past, Torn, DogAlive, Generation, Serving
<1>9. CASE ForceOff
  BY <1>9 DEF ForceOff, ConfirmOff, FailOff, TimedAfterOff, AfterFailed, Order, TypeOK,
     Past, Torn, DogAlive, Generation, Serving
<1>10. CASE ReapChildren
  BY <1>10 DEF ReapChildren, Order, TypeOK, Past, Torn, DogAlive, Generation, Serving
<1>11. CASE RecheckLatch
  BY <1>11 DEF RecheckLatch, LatchAfterRecheck, Order, TypeOK, Past, Torn, DogAlive,
     Generation, Serving
<1>12. CASE DrainChannel
  BY <1>12 DEF DrainChannel, Order, TypeOK, Past, Torn, DogAlive, Generation, Serving
<1>13. CASE DecideRestart
  BY <1>13 DEF DecideRestart, MayRestart, LeakInhibit, Order, TypeOK, Past, Torn,
     DogAlive, Generation, Serving
<1>14. CASE StartLink
  BY <1>14 DEF StartLink, Order, TypeOK, Past, Torn, DogAlive, Generation, Serving
<1>15. CASE StartBails \/ StartRefused
  BY <1>15 DEF StartBails, StartRefused, Order, TypeOK, Past, Torn, DogAlive, Generation, Serving
<1>16. CASE AwaitLoop
  BY <1>16 DEF AwaitLoop, LoopDropped, Order, TypeOK, Past, Torn, DogAlive, Generation,
     Serving
<1>17. CASE ReleaseOrphans
  BY <1>17 DEF ReleaseOrphans, OrphanReleaseIsSafe, Order, TypeOK, Past, Torn, DogAlive,
     Generation, Serving
<1>18. CASE RestartDone
  BY <1>18 DEF RestartDone, RepayInhibit, LeakInhibit, Order, TypeOK, Past, Torn,
     DogAlive, Generation, Serving
<1>19. CASE SwitchDone
  BY <1>19 DEF SwitchDone, SwitchRepays, LeakInhibit, RepayInhibit, Order, TypeOK, Past,
     Torn, DogAlive, Generation, Serving
<1>20. QED
  BY <1>1, <1>2, <1>3, <1>4, <1>5, <1>6, <1>7, <1>8, <1>9, <1>10, <1>11, <1>12, <1>13,
     <1>14, <1>15, <1>16, <1>17, <1>18, <1>19, QuietSteps DEF Next, Teardown, Restart

\* Nothing is done for a generation before it starts.
LEMMA PastStep ==
  ASSUME TypeOK, Order, Past, [Next]_vars
  PROVE  Past'
<1> USE RigLinkAssumption DEF txVars, radioVars, loopVars, dogVars, latchVars, muteVars,
     supVars
<1>1. CASE Quiet
  BY <1>1 DEF Quiet, Past, TypeOK, Order, Torn, Generation
<1>2. CASE Loop \/ LoopCrash
  <2>1. UNCHANGED <<gen, dog, stop, children, orphans>>
    BY <1>2, LoopSteps
  <2>2. \A g \in since' : g <= gen
    <3>1. gen <= gen
      BY DEF TypeOK, Generation
    <3>2. QED
      BY <1>2, <3>1, LoopSteps DEF Past
  <2>3. QED
    BY <2>1, <2>2 DEF Past
<1>3. ASSUME NEW g \in Generation, Dog(g) \/ DogEnds(g)
      PROVE  Past'
  <2>1. UNCHANGED <<gen, stop, children, orphans>> /\ since' \subseteq since
    BY <1>3, DogSteps
  <2>2. ASSUME NEW h \in Generation, h > gen
        PROVE  dog'[h] = "none"
    BY <1>3, <2>2, DogSteps DEF Past, DogAlive
  <2>3. QED
    BY <2>1, <2>2 DEF Past
<1>4. CASE HealthPass \/ SwitchAsked \/ SwitchStops \/ ForceOff \/ RecheckLatch
  BY <1>4 DEF HealthPass, SwitchAsked, SwitchStops, ForceOff, RecheckLatch, Past
<1>5. CASE DrainChannel \/ ReplayUnkey \/ DecideRestart \/ AwaitLoop \/ RestartDone \/
            SwitchDone
  BY <1>5 DEF DrainChannel, ReplayUnkey, DecideRestart, AwaitLoop, RestartDone, SwitchDone,
     Past
<1>6. CASE AbortOrphans
  BY <1>6 DEF AbortOrphans, Past, TypeOK, Order, Torn, Generation
<1>7. CASE ReapChildren
  BY <1>7 DEF ReapChildren, Past, TypeOK, Order, Torn, Generation
<1>8. CASE StartLink
  BY <1>8 DEF StartLink, Past, TypeOK, Order, Torn, Generation
<1>9. CASE StartBails \/ StartRefused
  <2>1. UNCHANGED <<since, dog, stop, children, orphans>> /\ gen' = gen + 1
    BY <1>9 DEF StartBails, StartRefused
  <2>2. QED
    BY <2>1 DEF Past, TypeOK, Generation
<1>10. CASE ReleaseOrphans
  BY <1>10 DEF ReleaseOrphans, OrphanReleaseIsSafe, DogAlive, Past, TypeOK, Order, Torn,
     Generation
<1>11. QED
  BY <1>1, <1>2, <1>3, <1>4, <1>5, <1>6, <1>7, <1>8, <1>9, <1>10, QuietSteps DEF Next,
     Teardown, Restart

\* Every inhibit stays owed.
LEMMA InhibitStep ==
  ASSUME TypeOK, InhibitIsOwed, [Next]_vars
  PROVE  InhibitIsOwed'
<1> USE RigLinkAssumption DEF txVars, radioVars, loopVars, dogVars, latchVars, muteVars,
     supVars
<1>1. CASE Quiet
  BY <1>1 DEF Quiet, InhibitIsOwed, TypeOK
<1>2. CASE Loop \/ LoopCrash
  BY <1>2, LoopSteps DEF InhibitIsOwed, TypeOK
<1>3. ASSUME NEW g \in Generation, Dog(g) \/ DogEnds(g)
      PROVE  InhibitIsOwed'
  BY <1>3, DogSteps DEF InhibitIsOwed, TypeOK
<1>4. CASE ReplayUnkey
  BY <1>4 DEF ReplayUnkey, ConfirmOff, FailOff, TimedAfterOff, AfterFailed,
     InhibitIsOwed, TypeOK
<1>5. CASE HealthPass
  BY <1>5 DEF HealthPass, MayRestart, InhibitIsOwed, TypeOK
<1>6. CASE SwitchAsked
  BY <1>6 DEF SwitchAsked, InhibitIsOwed, TypeOK
<1>7. CASE SwitchStops
  BY <1>7 DEF SwitchStops, InFlight, AfterFailed, InhibitIsOwed, TypeOK
<1>8. CASE AbortOrphans
  BY <1>8 DEF AbortOrphans, InhibitIsOwed, TypeOK
<1>9. CASE ForceOff
  BY <1>9 DEF ForceOff, ConfirmOff, FailOff, TimedAfterOff, AfterFailed, InhibitIsOwed,
     TypeOK
<1>10. CASE ReapChildren
  BY <1>10 DEF ReapChildren, InhibitIsOwed, TypeOK
<1>11. CASE RecheckLatch
  BY <1>11 DEF RecheckLatch, LatchAfterRecheck, InhibitIsOwed, TypeOK
<1>12. CASE DrainChannel
  BY <1>12 DEF DrainChannel, InhibitIsOwed, TypeOK
<1>13. CASE DecideRestart
  BY <1>13 DEF DecideRestart, MayRestart, LeakInhibit, InhibitIsOwed, TypeOK
<1>14. CASE StartLink
  BY <1>14 DEF StartLink, InhibitIsOwed, TypeOK
<1>15. CASE StartBails \/ StartRefused
  BY <1>15 DEF StartBails, StartRefused, InhibitIsOwed, TypeOK
<1>16. CASE AwaitLoop
  BY <1>16 DEF AwaitLoop, LoopDropped, InhibitIsOwed, TypeOK
<1>17. CASE ReleaseOrphans
  BY <1>17 DEF ReleaseOrphans, OrphanReleaseIsSafe, DogAlive, InhibitIsOwed, TypeOK
<1>18. CASE RestartDone
  BY <1>18 DEF RestartDone, RepayInhibit, LeakInhibit, InhibitIsOwed, TypeOK
<1>19. CASE SwitchDone
  BY <1>19 DEF SwitchDone, SwitchRepays, LeakInhibit, RepayInhibit, InhibitIsOwed,
     TypeOK
<1>20. QED
  BY <1>1, <1>2, <1>3, <1>4, <1>5, <1>6, <1>7, <1>8, <1>9, <1>10, <1>11, <1>12, <1>13,
     <1>14, <1>15, <1>16, <1>17, <1>18, <1>19, QuietSteps DEF Next, Teardown, Restart

\* An inhibit holds the loop until it is paid back.
LEMMA HoldStep ==
  ASSUME TypeOK, Order, InhibitIsOwed, InhibitHolds, [Next]_vars
  PROVE  InhibitHolds'
<1> USE RigLinkAssumption DEF txVars, radioVars, loopVars, dogVars, latchVars, muteVars,
     supVars
<1>1. CASE Quiet
  BY <1>1 DEF Quiet, InhibitHolds, TypeOK, Order, Torn, InhibitIsOwed
<1>2. CASE Loop \/ LoopCrash
  BY <1>2, LoopSteps DEF InhibitHolds, TypeOK, Order, Torn, InhibitIsOwed
<1>3. ASSUME NEW g \in Generation, Dog(g) \/ DogEnds(g)
      PROVE  InhibitHolds'
  BY <1>3, DogSteps DEF InhibitHolds, TypeOK, Order, Torn, InhibitIsOwed
<1>4. CASE SwitchAsked \/ AbortOrphans \/ ForceOff \/ ReapChildren \/ RecheckLatch \/
            DrainChannel \/ ReplayUnkey \/ StartBails \/ StartRefused \/ AwaitLoop \/
            ReleaseOrphans
  BY <1>4 DEF SwitchAsked, AbortOrphans, ForceOff, ReapChildren, RecheckLatch,
     DrainChannel, ReplayUnkey, StartBails, StartRefused, AwaitLoop, ReleaseOrphans,
     InhibitHolds
<1>5. CASE HealthPass
  BY <1>5 DEF HealthPass, MayRestart, InhibitHolds, TypeOK, Order, Torn, InhibitIsOwed
<1>6. CASE SwitchStops
  BY <1>6 DEF SwitchStops, InFlight, AfterFailed, InhibitHolds, TypeOK, Order, Torn,
     InhibitIsOwed
<1>7. CASE DecideRestart
  BY <1>7 DEF DecideRestart, MayRestart, LeakInhibit, InhibitHolds, TypeOK, Order, Torn,
     InhibitIsOwed
<1>8. CASE StartLink
  BY <1>8 DEF StartLink, InhibitHolds, TypeOK, Order, Torn, InhibitIsOwed
<1>9. CASE RestartDone
  BY <1>9 DEF RestartDone, RepayInhibit, LeakInhibit, InhibitHolds, TypeOK, Order, Torn,
     InhibitIsOwed
<1>10. CASE SwitchDone
  BY <1>10 DEF SwitchDone, SwitchRepays, LeakInhibit, RepayInhibit, InhibitHolds,
     TypeOK, Order, Torn, InhibitIsOwed
<1>11. QED
  BY <1>1, <1>2, <1>3, <1>4, <1>5, <1>6, <1>7, <1>8, <1>9, <1>10, QuietSteps DEF Next,
     Teardown, Restart

\* Readiness follows the loop and its watchdog.
LEMMA ReadyStep ==
  ASSUME TypeOK, Order, Past, ReadyIsTrue, [Next]_vars
  PROVE  ReadyIsTrue'
<1> USE RigLinkAssumption DEF txVars, radioVars, loopVars, dogVars, latchVars, muteVars,
     supVars
<1>1. CASE Quiet
  BY <1>1 DEF Quiet, ReadyIsTrue, TypeOK, Order, Past, Torn, Serving, DogAlive,
     Generation
<1>2. ASSUME NEW g \in Generation, Dog(g) \/ DogEnds(g)
      PROVE  ReadyIsTrue'
  BY <1>2, DogSteps DEF ReadyIsTrue, TypeOK, Order, Past, Torn, Serving, DogAlive,
     Generation
<1>3. CASE HealthPass \/ SwitchAsked \/ AbortOrphans \/ ForceOff \/ ReapChildren \/
            RecheckLatch
  BY <1>3 DEF HealthPass, SwitchAsked, AbortOrphans, ForceOff, ReapChildren, RecheckLatch,
     ReadyIsTrue, Serving, DogAlive
<1>4. CASE DrainChannel \/ ReplayUnkey \/ DecideRestart \/ AwaitLoop \/ ReleaseOrphans
            \/ RestartDone \/ SwitchDone
  BY <1>4 DEF DrainChannel, ReplayUnkey, DecideRestart, AwaitLoop, ReleaseOrphans,
     RestartDone, SwitchDone, ReadyIsTrue, Serving, DogAlive
<1>5. CASE LoopStartup
  BY <1>5 DEF LoopStartup, ConfirmOff, FailOff, TimedAfterOff, AfterFailed, ReadyIsTrue,
     TypeOK, Order, Past, Torn, Serving, DogAlive, Generation
<1>6. CASE LoopOpen
  BY <1>6 DEF LoopOpen, ReadyIsTrue, TypeOK, Order, Past, Torn, Serving, DogAlive,
     Generation
<1>7. CASE LoopTakes
  BY <1>7 DEF LoopTakes, ReadyIsTrue, TypeOK, Order, Past, Torn, Serving, DogAlive,
     Generation
<1>8. CASE LoopKeys
  BY <1>8 DEF LoopKeys, AfterFailed, ReadyIsTrue, TypeOK, Order, Past, Torn, Serving,
     DogAlive, Generation
<1>9. CASE LoopUnkeys
  BY <1>9 DEF LoopUnkeys, ConfirmOff, AfterFailed, TimedAfterOff, ReadyIsTrue, TypeOK,
     Order, Past, Torn, Serving, DogAlive, Generation
<1>10. CASE LoopBails
  BY <1>10 DEF LoopBails, ReadyIsTrue, TypeOK, Order, Past, Torn, Serving, DogAlive,
     Generation
<1>11. CASE LoopCrash
  BY <1>11 DEF LoopCrash, InFlight, AfterFailed, ReadyIsTrue, TypeOK, Order, Past, Torn,
     Serving, DogAlive, Generation
<1>12. CASE SwitchStops
  BY <1>12 DEF SwitchStops, InFlight, AfterFailed, ReadyIsTrue, TypeOK, Order, Past,
     Torn, Serving, DogAlive, Generation
<1>13. CASE StartLink
  BY <1>13 DEF StartLink, ReadyIsTrue, TypeOK, Order, Past, Torn, Serving, DogAlive,
     Generation
<1>14. CASE StartBails \/ StartRefused
  BY <1>14 DEF StartBails, StartRefused, ReadyIsTrue, TypeOK, Order, Past, Torn, Serving,
     DogAlive, Generation
<1>15. QED
  BY <1>1, <1>2, <1>3, <1>4, <1>5, <1>6, <1>7, <1>8, <1>9, <1>10, <1>11, <1>12, <1>13,
     <1>14, QuietSteps DEF Next, Loop, Teardown, Restart

\* The warning goes with the confirmation that makes it untrue.
LEMMA LatchStep ==
  ASSUME TypeOK, Past, LatchIsTrue, [Next]_vars
  PROVE  LatchIsTrue'
<1> USE RigLinkAssumption DEF txVars, radioVars, loopVars, dogVars, latchVars, muteVars,
     supVars
<1>1. CASE Quiet
  BY <1>1 DEF Quiet, LatchIsTrue, TypeOK, Past, Generation, Serving
<1>2. CASE LoopOpen \/ LoopTakes \/ LoopKeys \/ LoopBails \/ LoopCrash
  BY <1>2 DEF LoopOpen, LoopTakes, LoopKeys, LoopBails, LoopCrash, LatchIsTrue
<1>3. CASE LoopStartup
  BY <1>3 DEF LoopStartup, ConfirmOff, FailOff, TimedAfterOff, AfterFailed, LatchIsTrue,
     TypeOK, Past, Generation, Serving
<1>4. CASE LoopUnkeys
  BY <1>4 DEF LoopUnkeys, ConfirmOff, AfterFailed, TimedAfterOff, LatchIsTrue, TypeOK,
     Past, Generation, Serving
<1>5. ASSUME NEW g \in Generation, DogFires(g)
      PROVE  LatchIsTrue'
  BY <1>5 DEF DogFires, LatchIsTrue, TypeOK, Past, Generation, Serving
<1>6. ASSUME NEW g \in Generation, DogCuts(g)
      PROVE  LatchIsTrue'
  BY <1>6 DEF DogCuts, TimedAfterOff, AfterFailed, LatchIsTrue, TypeOK, Past,
     Generation, Serving
<1>7. ASSUME NEW g \in Generation, DogCounts(g)
      PROVE  LatchIsTrue'
  BY <1>7 DEF DogCounts, Rekeyed, LatchIsTrue, TypeOK, Past, Generation, Serving
<1>8. ASSUME NEW g \in Generation, DogSwaps(g)
      PROVE  LatchIsTrue'
  BY <1>8 DEF DogSwaps, Rekeyed, LatchIsTrue, TypeOK, Past, Generation, Serving
<1>9. ASSUME NEW g \in Generation, DogClears(g)
      PROVE  LatchIsTrue'
  BY <1>9 DEF DogClears, Rekeyed, LatchIsTrue, TypeOK, Past, Generation, Serving
<1>10. ASSUME NEW g \in Generation, DogEnds(g)
      PROVE  LatchIsTrue'
  BY <1>10 DEF DogEnds, AfterFailed, ReadyAfterDrop, LatchIsTrue, TypeOK, Past,
     Generation, Serving
<1>11. CASE HealthPass
  BY <1>11 DEF HealthPass, MayRestart, LatchIsTrue, TypeOK, Past, Generation, Serving
<1>12. CASE SwitchAsked
  BY <1>12 DEF SwitchAsked, LatchIsTrue, TypeOK, Past, Generation, Serving
<1>13. CASE SwitchStops
  BY <1>13 DEF SwitchStops, InFlight, AfterFailed, LatchIsTrue, TypeOK, Past,
     Generation, Serving
<1>14. CASE AbortOrphans
  BY <1>14 DEF AbortOrphans, LatchIsTrue, TypeOK, Past, Generation, Serving
<1>15. CASE ForceOff
  BY <1>15 DEF ForceOff, ConfirmOff, FailOff, TimedAfterOff, AfterFailed, LatchIsTrue,
     TypeOK, Past, Generation, Serving
<1>16. CASE ReapChildren
  BY <1>16 DEF ReapChildren, LatchIsTrue, TypeOK, Past, Generation, Serving
<1>17. CASE RecheckLatch
  BY <1>17 DEF RecheckLatch, LatchAfterRecheck, LatchIsTrue, TypeOK, Past, Generation,
     Serving
<1>18. CASE DrainChannel
  BY <1>18 DEF DrainChannel, LatchIsTrue, TypeOK, Past, Generation, Serving
<1>19. CASE ReplayUnkey
  BY <1>19 DEF ReplayUnkey, ConfirmOff, FailOff, TimedAfterOff, AfterFailed,
     LatchIsTrue, TypeOK, Past, Generation, Serving
<1>20. CASE DecideRestart
  BY <1>20 DEF DecideRestart, MayRestart, LeakInhibit, LatchIsTrue, TypeOK, Past,
     Generation, Serving
<1>21. CASE StartLink
  BY <1>21 DEF StartLink, LatchIsTrue, TypeOK, Past, Generation, Serving
<1>22. CASE StartBails \/ StartRefused
  BY <1>22 DEF StartBails, StartRefused, LatchIsTrue, TypeOK, Past, Generation, Serving
<1>23. CASE AwaitLoop
  BY <1>23 DEF AwaitLoop, LoopDropped, LatchIsTrue, TypeOK, Past, Generation, Serving
<1>24. CASE ReleaseOrphans
  BY <1>24 DEF ReleaseOrphans, OrphanReleaseIsSafe, DogAlive, LatchIsTrue, TypeOK, Past,
     Generation, Serving
<1>25. CASE RestartDone
  BY <1>25 DEF RestartDone, RepayInhibit, LeakInhibit, LatchIsTrue, TypeOK, Past,
     Generation, Serving
<1>26. CASE SwitchDone
  BY <1>26 DEF SwitchDone, SwitchRepays, LeakInhibit, RepayInhibit, LatchIsTrue, TypeOK,
     Past, Generation, Serving
<1>27. QED
  BY <1>1, <1>2, <1>3, <1>4, <1>5, <1>6, <1>7, <1>8, <1>9, <1>10, <1>11, <1>12, <1>13,
     <1>14, <1>15, <1>16, <1>17, <1>18, <1>19, <1>20, <1>21, <1>22, <1>23, <1>24, <1>25,
     <1>26, QuietSteps DEF Next, Loop, Dog, Teardown, Restart

-----------------------------------------------------------------------------
(* The rig, as the teardown, the loop and the warning see it. *)

\* The teardown is not mistaken about the rig.
LEMMA TearStep ==
  ASSUME TypeOK, Order, TeardownIsTrue, [Next]_vars
  PROVE  TeardownIsTrue'
<1> USE RigLinkAssumption DEF txVars, radioVars, loopVars, dogVars, latchVars, muteVars,
     supVars
<1>1. CASE Quiet
  BY <1>1 DEF Quiet, TeardownIsTrue, TypeOK, Order, Torn
<1>2. CASE LoopOpen \/ LoopBails
  BY <1>2 DEF LoopOpen, LoopBails, TeardownIsTrue
<1>3. CASE LoopStartup
  BY <1>3 DEF LoopStartup, ConfirmOff, FailOff, TimedAfterOff, AfterFailed,
     TeardownIsTrue, TypeOK, Order, Torn
<1>4. CASE LoopTakes
  BY <1>4 DEF LoopTakes, DogAlive, TeardownIsTrue, TypeOK, Order, Torn
<1>5. CASE LoopKeys
  BY <1>5 DEF LoopKeys, AfterFailed, TeardownIsTrue, TypeOK, Order, Torn
<1>6. CASE LoopUnkeys
  BY <1>6 DEF LoopUnkeys, ConfirmOff, AfterFailed, TimedAfterOff, TeardownIsTrue,
     TypeOK, Order, Torn
<1>7. CASE LoopCrash
  BY <1>7 DEF LoopCrash, InFlight, AfterFailed, TeardownIsTrue, TypeOK, Order, Torn
<1>8. ASSUME NEW g \in Generation, DogCuts(g)
      PROVE  TeardownIsTrue'
  BY <1>8, OffSteps DEF DogCuts, TeardownIsTrue, TypeOK
<1>9. ASSUME NEW g \in Generation, DogCounts(g)
      PROVE  TeardownIsTrue'
  BY <1>9 DEF DogCounts, Rekeyed, TeardownIsTrue, TypeOK, Order, Torn
<1>10. ASSUME NEW g \in Generation, DogSwaps(g)
      PROVE  TeardownIsTrue'
  BY <1>10 DEF DogSwaps, Rekeyed, TeardownIsTrue, TypeOK, Order, Torn
<1>11. ASSUME NEW g \in Generation, DogClears(g)
      PROVE  TeardownIsTrue'
  BY <1>11 DEF DogClears, Rekeyed, TeardownIsTrue, TypeOK, Order, Torn
<1>12. ASSUME NEW g \in Generation, DogEnds(g)
      PROVE  TeardownIsTrue'
  BY <1>12 DEF DogEnds, AfterFailed, ReadyAfterDrop, TeardownIsTrue, TypeOK, Order, Torn
<1>13. CASE HealthPass
  BY <1>13 DEF HealthPass, MayRestart, TeardownIsTrue, TypeOK, Order, Torn
<1>14. CASE SwitchAsked
  BY <1>14 DEF SwitchAsked, TeardownIsTrue, TypeOK, Order, Torn
<1>15. CASE SwitchStops
  BY <1>15 DEF SwitchStops, InFlight, AfterFailed, TeardownIsTrue, TypeOK, Order, Torn
<1>16. CASE AbortOrphans
  BY <1>16 DEF AbortOrphans, TeardownIsTrue, TypeOK, Order, Torn
<1>17. CASE ForceOff
  <2>1. CASE ConfirmOff
    BY <1>17, <2>1 DEF ForceOff, ConfirmOff, TeardownIsTrue, TypeOK
  <2>2. CASE ~ConfirmOff
    <3>1. (rig' => rig) /\ UNCHANGED <<untimed, confirmed>>
      BY <1>17, <2>2, OffSteps DEF ForceOff, FailOff, latchVars, TypeOK
    <3>2. ~offOk' /\ sup' \in {"off", "reap"} /\ sup = "off"
      BY <1>17, <2>2 DEF ForceOff, TeardownIsTrue
    <3>3. QED
      BY <3>1, <3>2 DEF TeardownIsTrue
  <2>3. QED
    BY <1>17, <2>1, <2>2 DEF ForceOff
<1>18. CASE ReapChildren
  BY <1>18 DEF ReapChildren, TeardownIsTrue, TypeOK, Order, Torn
<1>19. CASE RecheckLatch
  BY <1>19 DEF RecheckLatch, LatchAfterRecheck, TeardownIsTrue, TypeOK, Order, Torn
<1>20. CASE DrainChannel
  BY <1>20 DEF DrainChannel, TeardownIsTrue, TypeOK, Order, Torn
<1>21. CASE ReplayUnkey
  BY <1>21 DEF ReplayUnkey, ConfirmOff, FailOff, TimedAfterOff, AfterFailed,
     TeardownIsTrue, TypeOK, Order, Torn
<1>22. CASE DecideRestart
  BY <1>22 DEF DecideRestart, MayRestart, LeakInhibit, TeardownIsTrue, TypeOK, Order,
     Torn
<1>23. CASE StartLink
  BY <1>23 DEF StartLink, TeardownIsTrue, TypeOK, Order, Torn
<1>24. CASE StartBails \/ StartRefused
  BY <1>24 DEF StartBails, StartRefused, TeardownIsTrue, TypeOK, Order, Torn
<1>25. CASE AwaitLoop
  BY <1>25 DEF AwaitLoop, LoopDropped, TeardownIsTrue, TypeOK, Order, Torn
<1>26. CASE ReleaseOrphans
  BY <1>26 DEF ReleaseOrphans, OrphanReleaseIsSafe, DogAlive, TeardownIsTrue, TypeOK,
     Order, Torn
<1>27. CASE RestartDone
  BY <1>27 DEF RestartDone, RepayInhibit, LeakInhibit, TeardownIsTrue, TypeOK, Order,
     Torn
<1>28. CASE SwitchDone
  BY <1>28 DEF SwitchDone, SwitchRepays, LeakInhibit, RepayInhibit, TeardownIsTrue,
     TypeOK, Order, Torn
<1>29. ASSUME NEW g \in Generation, DogFires(g)
      PROVE  TeardownIsTrue'
  BY <1>29 DEF DogFires, TeardownIsTrue, TypeOK, Order, Torn
<1>30. QED
  BY <1>1, <1>2, <1>3, <1>4, <1>5, <1>6, <1>7, <1>8, <1>9, <1>10, <1>11, <1>12, <1>13,
     <1>14, <1>15, <1>16, <1>17, <1>18, <1>19, <1>20, <1>21, <1>22, <1>23, <1>24, <1>25,
     <1>26, <1>27, <1>28, <1>29, QuietSteps DEF Next, Loop, Dog, Teardown, Restart

\* A rig left keyed is reported.
LEMMA StuckStep ==
  ASSUME TypeOK, Order, InhibitIsOwed, InhibitHolds, StuckIsReported, TeardownIsTrue,
     [Next]_vars
  PROVE  StuckIsReported'
<1> USE RigLinkAssumption DEF txVars, radioVars, loopVars, dogVars, latchVars, muteVars,
     supVars
<1>1. CASE Quiet
  BY <1>1 DEF Quiet, StuckIsReported, Reported, TypeOK, Order, Torn, InhibitIsOwed,
     InhibitHolds, TeardownIsTrue
<1>2. CASE LoopOpen \/ LoopBails
  BY <1>2 DEF LoopOpen, LoopBails, StuckIsReported, Reported
<1>3. CASE LoopStartup
  BY <1>3, OffSteps DEF LoopStartup, StuckIsReported, Reported, TypeOK
<1>4. CASE LoopTakes
  <2>1. children # 0 /\ UNCHANGED <<rig, children, inhibit, sup, latch>>
    BY <1>4 DEF LoopTakes, Order, TypeOK, Generation
  <2>2. untimed' = untimed \/ inhibit = 0
    BY <1>4 DEF LoopTakes
  <2>3. QED
    BY <2>1, <2>2 DEF StuckIsReported, Reported, TypeOK
<1>5. CASE LoopKeys
  BY <1>5 DEF LoopKeys, AfterFailed, StuckIsReported, Reported, TypeOK, Order, Torn,
     InhibitIsOwed, InhibitHolds, TeardownIsTrue
<1>6. CASE LoopUnkeys
  BY <1>6 DEF LoopUnkeys, ConfirmOff, AfterFailed, TimedAfterOff, StuckIsReported,
     Reported, TypeOK, Order, Torn, InhibitIsOwed, InhibitHolds, TeardownIsTrue
<1>7. CASE LoopCrash
  <2>1. children # 0 /\ UNCHANGED <<children, inhibit, sup, latch, untimed>>
    BY <1>7 DEF LoopCrash, Order, TypeOK, Generation
  <2>2. inhibit > 0 => (rig' => rig)
    BY <1>7, CutShort DEF LoopCrash, InhibitHolds, TypeOK
  <2>3. QED
    BY <2>1, <2>2 DEF StuckIsReported, Reported
<1>8. ASSUME NEW g \in Generation, DogCuts(g)
      PROVE  StuckIsReported'
  BY <1>8, OffSteps DEF DogCuts, StuckIsReported, Reported, TypeOK
<1>9. ASSUME NEW g \in Generation, DogCounts(g)
      PROVE  StuckIsReported'
  BY <1>9 DEF DogCounts, Rekeyed, StuckIsReported, Reported, TypeOK, Order, Torn,
     InhibitIsOwed, InhibitHolds, TeardownIsTrue
<1>10. ASSUME NEW g \in Generation, DogSwaps(g)
      PROVE  StuckIsReported'
  BY <1>10 DEF DogSwaps, Rekeyed, StuckIsReported, Reported, TypeOK, Order, Torn,
     InhibitIsOwed, InhibitHolds, TeardownIsTrue
<1>11. ASSUME NEW g \in Generation, DogClears(g)
      PROVE  StuckIsReported'
  BY <1>11 DEF DogClears, Rekeyed, StuckIsReported, Reported, TypeOK, Order, Torn,
     InhibitIsOwed, InhibitHolds, TeardownIsTrue
<1>12. ASSUME NEW g \in Generation, DogEnds(g)
      PROVE  StuckIsReported'
  BY <1>12 DEF DogEnds, AfterFailed, ReadyAfterDrop, StuckIsReported, Reported, TypeOK,
     Order, Torn, InhibitIsOwed, InhibitHolds, TeardownIsTrue
<1>13. CASE HealthPass
  BY <1>13 DEF HealthPass, MayRestart, StuckIsReported, Reported, TypeOK, Order, Torn,
     InhibitIsOwed, InhibitHolds, TeardownIsTrue
<1>14. CASE SwitchAsked
  BY <1>14 DEF SwitchAsked, StuckIsReported, Reported, TypeOK, Order, Torn,
     InhibitIsOwed, InhibitHolds, TeardownIsTrue
<1>15. CASE SwitchStops
  <2>1. sup' = "orphans" /\ UNCHANGED <<children, latch, untimed>>
    BY <1>15 DEF SwitchStops
  <2>2. children = 0 => UNCHANGED rig
    <3>1. children = 0 /\ registered => loop = "dead"
      BY DEF Order, TypeOK, Generation
    <3>2. loop = "dead" => InFlight = {rig}
      BY DEF InFlight
    <3>3. QED
      BY <1>15, <3>1, <3>2 DEF SwitchStops
  <2>3. QED
    BY <2>1, <2>2 DEF StuckIsReported, Reported
<1>16. CASE AbortOrphans
  BY <1>16 DEF AbortOrphans, StuckIsReported, Reported, TypeOK, Order, Torn,
     InhibitIsOwed, InhibitHolds, TeardownIsTrue
<1>17. CASE ForceOff
  <2>1. (rig' => rig /\ UNCHANGED <<latch, untimed>>) /\ sup' \in {"off", "reap"}
    BY <1>17, OffSteps DEF ForceOff, TypeOK
  <2>2. UNCHANGED <<inhibit, children>>
    BY <1>17 DEF ForceOff
  <2>3. QED
    BY <2>1, <2>2 DEF StuckIsReported, Reported
<1>18. CASE ReapChildren
  BY <1>18 DEF ReapChildren, StuckIsReported, Reported, TypeOK, Order, Torn,
     InhibitIsOwed, InhibitHolds, TeardownIsTrue
<1>19. CASE RecheckLatch
  BY <1>19 DEF RecheckLatch, LatchAfterRecheck, StuckIsReported, Reported, TypeOK,
     Order, Torn, InhibitIsOwed, InhibitHolds, TeardownIsTrue
<1>20. CASE DrainChannel
  BY <1>20 DEF DrainChannel, StuckIsReported, Reported, TypeOK, Order, Torn,
     InhibitIsOwed, InhibitHolds, TeardownIsTrue
<1>21. CASE ReplayUnkey
  BY <1>21, OffSteps DEF ReplayUnkey, StuckIsReported, Reported, TypeOK
<1>22. CASE DecideRestart
  BY <1>22 DEF DecideRestart, MayRestart, LeakInhibit, StuckIsReported, Reported,
     TypeOK, Order, Torn, InhibitIsOwed, InhibitHolds, TeardownIsTrue
<1>23. CASE StartLink
  BY <1>23, StartSteps DEF StuckIsReported, Reported, TypeOK, Order, InhibitIsOwed
<1>24. CASE StartBails \/ StartRefused
  BY <1>24, StartSteps DEF StuckIsReported, Reported, TypeOK, Order, InhibitIsOwed
<1>25. CASE AwaitLoop
  BY <1>25 DEF AwaitLoop, LoopDropped, StuckIsReported, Reported, TypeOK, Order, Torn,
     InhibitIsOwed, InhibitHolds, TeardownIsTrue
<1>26. CASE ReleaseOrphans
  BY <1>26 DEF ReleaseOrphans, OrphanReleaseIsSafe, DogAlive, StuckIsReported, Reported,
     TypeOK, Order, Torn, InhibitIsOwed, InhibitHolds, TeardownIsTrue
<1>27. CASE RestartDone
  BY <1>27 DEF RestartDone, RepayInhibit, LeakInhibit, StuckIsReported, Reported,
     TypeOK, Order, Torn, InhibitIsOwed, InhibitHolds, TeardownIsTrue
<1>28. CASE SwitchDone
  BY <1>28 DEF SwitchDone, SwitchRepays, LeakInhibit, RepayInhibit, StuckIsReported,
     Reported, TypeOK, Order, Torn, InhibitIsOwed, InhibitHolds, TeardownIsTrue
<1>29. ASSUME NEW g \in Generation, DogFires(g)
      PROVE  StuckIsReported'
  BY <1>29 DEF DogFires, StuckIsReported, Reported, TypeOK, Order, Torn, InhibitIsOwed,
     InhibitHolds, TeardownIsTrue
<1>30. QED
  BY <1>1, <1>2, <1>3, <1>4, <1>5, <1>6, <1>7, <1>8, <1>9, <1>10, <1>11, <1>12, <1>13,
     <1>14, <1>15, <1>16, <1>17, <1>18, <1>19, <1>20, <1>21, <1>22, <1>23, <1>24, <1>25,
     <1>26, <1>27, <1>28, <1>29, QuietSteps DEF Next, Loop, Dog, Teardown, Restart

\* A live loop's rig is timed or reported.
LEMMA KeyedStep ==
  ASSUME TypeOK, Order, Past, InhibitIsOwed, StuckIsReported, KeyedIsTimed, [Next]_vars
  PROVE  KeyedIsTimed'
<1> USE RigLinkAssumption DEF txVars, radioVars, loopVars, dogVars, latchVars, muteVars,
     supVars
<1>1. CASE Quiet
  BY <1>1 DEF Quiet, KeyedIsTimed, Reported, TypeOK, Order, Past, Torn, Generation,
     InhibitIsOwed, StuckIsReported, DogAlive
<1>2. CASE HealthPass \/ SwitchAsked \/ AbortOrphans \/ DrainChannel \/ DecideRestart \/
            AwaitLoop \/ ReleaseOrphans \/ RestartDone \/ SwitchDone
  BY <1>2 DEF HealthPass, SwitchAsked, AbortOrphans, DrainChannel, DecideRestart,
     AwaitLoop, ReleaseOrphans, RestartDone, SwitchDone, KeyedIsTimed, Reported
<1>3. CASE LoopStartup
  BY <1>3, OffSteps DEF LoopStartup, KeyedIsTimed, Reported, TypeOK
<1>4. CASE LoopOpen
  BY <1>4 DEF LoopOpen, KeyedIsTimed, Reported, TypeOK, Order, Past, Torn, Generation,
     InhibitIsOwed, StuckIsReported, DogAlive
<1>5. CASE LoopTakes
  BY <1>5 DEF LoopTakes, KeyedIsTimed, Reported, TypeOK, Order, Past, Torn, Generation,
     InhibitIsOwed, StuckIsReported, DogAlive
<1>6. CASE LoopKeys
  BY <1>6 DEF LoopKeys, AfterFailed, KeyedIsTimed, Reported, TypeOK, Order, Past, Torn,
     Generation, InhibitIsOwed, StuckIsReported, DogAlive
<1>7. CASE LoopUnkeys
  BY <1>7 DEF LoopUnkeys, ConfirmOff, AfterFailed, TimedAfterOff, KeyedIsTimed,
     Reported, TypeOK, Order, Past, Torn, Generation, InhibitIsOwed, StuckIsReported,
     DogAlive
<1>8. CASE LoopBails
  BY <1>8 DEF LoopBails, KeyedIsTimed, Reported, TypeOK, Order, Past, Torn, Generation,
     InhibitIsOwed, StuckIsReported, DogAlive
<1>9. CASE LoopCrash
  BY <1>9 DEF LoopCrash, InFlight, AfterFailed, KeyedIsTimed, Reported, TypeOK, Order,
     Past, Torn, Generation, InhibitIsOwed, StuckIsReported, DogAlive
<1>10. ASSUME NEW g \in Generation, DogCuts(g)
      PROVE  KeyedIsTimed'
  BY <1>10, OffSteps DEF DogCuts, KeyedIsTimed, Reported, TypeOK
<1>11. ASSUME NEW g \in Generation, DogCounts(g)
      PROVE  KeyedIsTimed'
  BY <1>11 DEF DogCounts, Rekeyed, KeyedIsTimed, Reported, TypeOK, Order, Past, Torn,
     Generation, InhibitIsOwed, StuckIsReported, DogAlive
<1>12. ASSUME NEW g \in Generation, DogSwaps(g)
      PROVE  KeyedIsTimed'
  BY <1>12 DEF DogSwaps, Rekeyed, KeyedIsTimed, Reported, TypeOK, Order, Past, Torn,
     Generation, InhibitIsOwed, StuckIsReported, DogAlive
<1>13. ASSUME NEW g \in Generation, DogClears(g)
      PROVE  KeyedIsTimed'
  BY <1>13 DEF DogClears, Rekeyed, KeyedIsTimed, Reported, TypeOK, Order, Past, Torn,
     Generation, InhibitIsOwed, StuckIsReported, DogAlive
<1>14. ASSUME NEW g \in Generation, DogEnds(g)
      PROVE  KeyedIsTimed'
  BY <1>14 DEF DogEnds, AfterFailed, ReadyAfterDrop, KeyedIsTimed, Reported, TypeOK,
     Order, Past, Torn, Generation, InhibitIsOwed, StuckIsReported, DogAlive
<1>15. CASE SwitchStops
  BY <1>15 DEF SwitchStops, InFlight, AfterFailed, KeyedIsTimed, Reported, TypeOK,
     Order, Past, Torn, Generation, InhibitIsOwed, StuckIsReported, DogAlive
<1>16. CASE ForceOff
  BY <1>16 DEF ForceOff, ConfirmOff, FailOff, TimedAfterOff, AfterFailed, KeyedIsTimed,
     Reported, TypeOK, Order, Past, Torn, Generation, InhibitIsOwed, StuckIsReported,
     DogAlive
<1>17. CASE ReapChildren
  BY <1>17 DEF ReapChildren, KeyedIsTimed, Reported, TypeOK, Order, Past, Torn,
     Generation, InhibitIsOwed, StuckIsReported, DogAlive
<1>18. CASE RecheckLatch
  BY <1>18 DEF RecheckLatch, LatchAfterRecheck, KeyedIsTimed, Reported, TypeOK, Order,
     Past, Torn, Generation, InhibitIsOwed, StuckIsReported, DogAlive
<1>19. CASE ReplayUnkey
  BY <1>19 DEF ReplayUnkey, ConfirmOff, FailOff, TimedAfterOff, AfterFailed,
     KeyedIsTimed, Reported, TypeOK, Order, Past, Torn, Generation, InhibitIsOwed,
     StuckIsReported, DogAlive
<1>20. CASE StartLink
  <2>1. loop' = "starting"
    BY <1>20 DEF StartLink
  <2>2. inhibit > 0
    BY <1>20, StartSteps DEF InhibitIsOwed, TypeOK
  <2>3. rig' => Reported'
    BY <1>20, <2>2, StartSteps DEF StuckIsReported, Reported
  <2>4. QED
    BY <2>1, <2>3 DEF KeyedIsTimed
<1>21. CASE StartBails \/ StartRefused
  BY <1>21 DEF StartBails, StartRefused, KeyedIsTimed, Reported, TypeOK, Order, Past, Torn,
     Generation, InhibitIsOwed, StuckIsReported, DogAlive
<1>22. ASSUME NEW g \in Generation, DogFires(g)
      PROVE  KeyedIsTimed'
  BY <1>22 DEF DogFires, KeyedIsTimed, Reported, TypeOK, Order, Past, Torn, Generation,
     InhibitIsOwed, StuckIsReported, DogAlive
<1>23. QED
  BY <1>1, <1>2, <1>3, <1>4, <1>5, <1>6, <1>7, <1>8, <1>9, <1>10, <1>11, <1>12, <1>13,
     <1>14, <1>15, <1>16, <1>17, <1>18, <1>19, <1>20, <1>21, <1>22, QuietSteps DEF Next,
     Loop, Dog, Teardown, Restart

\* ptt_safe keeps its promise.
LEMMA SafeStep ==
  ASSUME TypeOK, Order, Past, InhibitIsOwed, InhibitHolds, SafeIsTimed, [Next]_vars
  PROVE  SafeIsTimed'
<1> USE RigLinkAssumption DEF txVars, radioVars, loopVars, dogVars, latchVars, muteVars,
     supVars
<1>1. CASE Quiet
  BY <1>1 DEF Quiet, SafeIsTimed, TypeOK, Order, Torn, InhibitIsOwed, InhibitHolds
<1>2. CASE LoopStartup
  BY <1>2 DEF LoopStartup, ConfirmOff, FailOff, TimedAfterOff, AfterFailed, SafeIsTimed,
     TypeOK, Order, Torn, InhibitIsOwed, InhibitHolds
<1>3. CASE LoopOpen
  BY <1>3 DEF LoopOpen, DogAlive, SafeIsTimed, TypeOK, Order, Torn, InhibitIsOwed,
     InhibitHolds
<1>4. CASE LoopTakes
  BY <1>4 DEF LoopTakes, DogAlive, SafeIsTimed, TypeOK, Order, Torn, InhibitIsOwed,
     InhibitHolds
<1>5. CASE LoopKeys
  BY <1>5 DEF LoopKeys, AfterFailed, SafeIsTimed, TypeOK, Order, Torn, InhibitIsOwed,
     InhibitHolds
<1>6. CASE LoopUnkeys
  BY <1>6 DEF LoopUnkeys, ConfirmOff, AfterFailed, TimedAfterOff, SafeIsTimed, TypeOK,
     Order, Torn, InhibitIsOwed, InhibitHolds
<1>7. CASE LoopBails
  BY <1>7 DEF LoopBails, DogAlive, SafeIsTimed, TypeOK, Order, Torn, InhibitIsOwed,
     InhibitHolds
<1>8. CASE LoopCrash
  BY <1>8 DEF LoopCrash, InFlight, AfterFailed, SafeIsTimed, TypeOK, Order, Torn,
     InhibitIsOwed, InhibitHolds
<1>9. ASSUME NEW g \in Generation, DogCuts(g)
      PROVE  SafeIsTimed'
  BY <1>9 DEF DogCuts, TimedAfterOff, AfterFailed, SafeIsTimed, TypeOK, Order, Torn,
     InhibitIsOwed, InhibitHolds
<1>10. ASSUME NEW g \in Generation, DogCounts(g)
      PROVE  SafeIsTimed'
  BY <1>10 DEF DogCounts, Rekeyed, SafeIsTimed, TypeOK, Order, Torn, InhibitIsOwed,
     InhibitHolds
<1>11. ASSUME NEW g \in Generation, DogSwaps(g)
      PROVE  SafeIsTimed'
  BY <1>11 DEF DogSwaps, Rekeyed, SafeIsTimed, TypeOK, Order, Torn, InhibitIsOwed,
     InhibitHolds
<1>12. ASSUME NEW g \in Generation, DogClears(g)
      PROVE  SafeIsTimed'
  BY <1>12 DEF DogClears, Rekeyed, SafeIsTimed, TypeOK, Order, Torn, InhibitIsOwed,
     InhibitHolds
<1>13. ASSUME NEW g \in Generation, DogEnds(g)
      PROVE  SafeIsTimed'
  BY <1>13 DEF DogEnds, AfterFailed, ReadyAfterDrop, SafeIsTimed, TypeOK, Order, Torn,
     InhibitIsOwed, InhibitHolds
<1>14. CASE HealthPass
  BY <1>14 DEF HealthPass, MayRestart, SafeIsTimed, TypeOK, Order, Torn, InhibitIsOwed,
     InhibitHolds
<1>15. CASE SwitchAsked
  BY <1>15 DEF SwitchAsked, SafeIsTimed, TypeOK, Order, Torn, InhibitIsOwed,
     InhibitHolds
<1>16. CASE SwitchStops
  BY <1>16 DEF SwitchStops, InFlight, AfterFailed, SafeIsTimed, TypeOK, Order, Torn,
     InhibitIsOwed, InhibitHolds
<1>17. CASE AbortOrphans
  BY <1>17 DEF AbortOrphans, SafeIsTimed, TypeOK, Order, Torn, InhibitIsOwed,
     InhibitHolds
<1>18. CASE ForceOff
  BY <1>18 DEF ForceOff, ConfirmOff, FailOff, TimedAfterOff, AfterFailed, SafeIsTimed,
     TypeOK, Order, Torn, InhibitIsOwed, InhibitHolds
<1>19. CASE ReapChildren
  BY <1>19 DEF ReapChildren, SafeIsTimed, TypeOK, Order, Torn, InhibitIsOwed,
     InhibitHolds
<1>20. CASE RecheckLatch
  BY <1>20 DEF RecheckLatch, LatchAfterRecheck, SafeIsTimed, TypeOK, Order, Torn,
     InhibitIsOwed, InhibitHolds
<1>21. CASE DrainChannel
  BY <1>21 DEF DrainChannel, SafeIsTimed, TypeOK, Order, Torn, InhibitIsOwed,
     InhibitHolds
<1>22. CASE ReplayUnkey
  BY <1>22 DEF ReplayUnkey, ConfirmOff, FailOff, TimedAfterOff, AfterFailed,
     SafeIsTimed, TypeOK, Order, Torn, InhibitIsOwed, InhibitHolds
<1>23. CASE DecideRestart
  BY <1>23 DEF DecideRestart, MayRestart, LeakInhibit, SafeIsTimed, TypeOK, Order, Torn,
     InhibitIsOwed, InhibitHolds
<1>24. CASE StartLink
  BY <1>24 DEF StartLink, SafeIsTimed, TypeOK, Order, Torn, InhibitIsOwed, InhibitHolds
<1>25. CASE StartBails \/ StartRefused
  BY <1>25 DEF StartBails, StartRefused, SafeIsTimed, TypeOK, Order, Torn, InhibitIsOwed,
     InhibitHolds
<1>26. CASE AwaitLoop
  BY <1>26 DEF AwaitLoop, LoopDropped, SafeIsTimed, TypeOK, Order, Torn, InhibitIsOwed,
     InhibitHolds
<1>27. CASE ReleaseOrphans
  BY <1>27 DEF ReleaseOrphans, OrphanReleaseIsSafe, DogAlive, SafeIsTimed, TypeOK,
     Order, Torn, InhibitIsOwed, InhibitHolds
<1>28. CASE RestartDone
  BY <1>28 DEF RestartDone, RepayInhibit, LeakInhibit, SafeIsTimed, TypeOK, Order, Torn,
     InhibitIsOwed, InhibitHolds
<1>29. CASE SwitchDone
  BY <1>29 DEF SwitchDone, SwitchRepays, LeakInhibit, RepayInhibit, SafeIsTimed, TypeOK,
     Order, Torn, InhibitIsOwed, InhibitHolds
<1>30. ASSUME NEW g \in Generation, DogFires(g)
      PROVE  SafeIsTimed'
  BY <1>30 DEF DogFires, SafeIsTimed, TypeOK, Order, Torn, InhibitIsOwed, InhibitHolds
<1>31. QED
  BY <1>1, <1>2, <1>3, <1>4, <1>5, <1>6, <1>7, <1>8, <1>9, <1>10, <1>11, <1>12, <1>13,
     <1>14, <1>15, <1>16, <1>17, <1>18, <1>19, <1>20, <1>21, <1>22, <1>23, <1>24, <1>25,
     <1>26, <1>27, <1>28, <1>29, <1>30, QuietSteps DEF Next, Loop, Dog, Teardown,
     Restart

-----------------------------------------------------------------------------
(* Types. *)

\* TypeOK by kinds of state: flags, places in the control, counters, the
\* channel, and sets of generations.
FlagsOK ==
  /\ rig \in BOOLEAN /\ cat \in BOOLEAN /\ left \in BOOLEAN
  /\ pttActive \in BOOLEAN /\ manual \in BOOLEAN
  /\ opened \in BOOLEAN /\ ready \in BOOLEAN
  /\ latch \in BOOLEAN /\ confirmed \in BOOLEAN
  /\ registered \in BOOLEAN /\ offOk \in BOOLEAN /\ switchFailed \in BOOLEAN

PlacesOK ==
  /\ worker \in {"idle", "raised", "gated", "onair", "closing"}
  /\ loop \in {"starting", "opening", "dead"} \cup Serving
  /\ pttSafe \in {"timed", "unsent", "true", "false"}
  /\ status \in {"Running", "Failed"}
  /\ sup \in {"idle", "switch", "orphans", "off", "reap", "latched", "drain",
              "replay", "start", "await", "release", "done", "failed"}
  /\ cause \in {"crash", "switch"}
  /\ untimed \in {"no", "failed", "raced", "left"}

CountersOK ==
  /\ keyings \in 0 .. MaxKeyings
  /\ inhibit \in Nat /\ leaked \in Nat
  /\ attempts \in 0 .. MaxRestarts
  /\ tries \in 1 .. OffAttempts

ChannelOK ==
  /\ inbox \in Seq({"on", "off"}) /\ Len(inbox) <= InboxCap
  /\ held \in 0 .. InboxCap

GenerationsOK ==
  /\ gen \in Generation
  /\ since \subseteq Generation
  /\ dog \in [Generation -> {"none", "watch", "cutting", "count", "swap",
                              "clear", "dead"}]
  /\ stop \subseteq Generation
  /\ children \in 0 .. MaxGenerations /\ orphans \subseteq Generation

\* The five parts make up TypeOK.
LEMMA TypeParts ==
  TypeOK <=> FlagsOK /\ PlacesOK /\ CountersOK /\ ChannelOK /\ GenerationsOK
  BY DEF TypeOK, FlagsOK, PlacesOK, CountersOK, ChannelOK, GenerationsOK

\* Flags stay flags.
LEMMA FlagsStep ==
  ASSUME FlagsOK, [Next]_vars
  PROVE  FlagsOK'
<1> USE RigLinkAssumption DEF txVars, radioVars, loopVars, dogVars, latchVars, muteVars,
     supVars
<1>1. CASE WorkerKeys \/ WorkerUnkeys \/ AgeOut \/ LoopTakes \/ SwitchAsked \/
            DrainChannel \/ DecideRestart \/ AwaitLoop
  BY <1>1 DEF WorkerKeys, WorkerUnkeys, AgeOut, LoopTakes, SwitchAsked, DrainChannel,
     DecideRestart, AwaitLoop, FlagsOK
<1>2. ASSUME NEW g \in Generation, DogFires(g) \/ DogClears(g)
      PROVE  FlagsOK'
  BY <1>2 DEF DogFires, DogClears, FlagsOK
<1>3. CASE WorkerRaises
  BY <1>3 DEF WorkerRaises, FlagsOK
<1>4. CASE WorkerGate
  BY <1>4 DEF WorkerGate, HardMuted, FlagsOK
<1>5. CASE WorkerLowers
  BY <1>5 DEF WorkerLowers, FlagsOK
<1>6. CASE TogglePtt
  BY <1>6 DEF TogglePtt, HardMuted, Sent, FlagsOK
<1>7. CASE UNCHANGED vars
  BY <1>7 DEF vars, FlagsOK
<1>8. CASE LoopStartup
  BY <1>8 DEF LoopStartup, ConfirmOff, FailOff, TimedAfterOff, AfterFailed, FlagsOK
<1>9. CASE LoopOpen
  BY <1>9 DEF LoopOpen, DogAlive, FlagsOK
<1>10. CASE LoopKeys
  BY <1>10 DEF LoopKeys, AfterFailed, FlagsOK
<1>11. CASE LoopUnkeys
  BY <1>11 DEF LoopUnkeys, ConfirmOff, AfterFailed, TimedAfterOff, FlagsOK
<1>12. CASE LoopBails
  BY <1>12 DEF LoopBails, DogAlive, FlagsOK
<1>13. CASE LoopCrash
  BY <1>13 DEF LoopCrash, InFlight, AfterFailed, FlagsOK
<1>14. ASSUME NEW g \in Generation, DogCuts(g)
      PROVE  FlagsOK'
  BY <1>14 DEF DogCuts, TimedAfterOff, AfterFailed, FlagsOK
<1>15. ASSUME NEW g \in Generation, DogCounts(g)
      PROVE  FlagsOK'
  BY <1>15 DEF DogCounts, Rekeyed, FlagsOK
<1>16. ASSUME NEW g \in Generation, DogSwaps(g)
      PROVE  FlagsOK'
  BY <1>16 DEF DogSwaps, Rekeyed, FlagsOK
<1>17. ASSUME NEW g \in Generation, DogEnds(g)
      PROVE  FlagsOK'
  BY <1>17 DEF DogEnds, AfterFailed, ReadyAfterDrop, FlagsOK
<1>18. CASE HealthPass
  BY <1>18 DEF HealthPass, MayRestart, FlagsOK
<1>19. CASE SwitchStops
  BY <1>19 DEF SwitchStops, InFlight, AfterFailed, FlagsOK
<1>20. CASE AbortOrphans
  BY <1>20 DEF AbortOrphans, FlagsOK
<1>21. CASE ForceOff
  <2>1. ASSUME ConfirmOff
        PROVE  rig' \in BOOLEAN /\ latch' \in BOOLEAN /\ confirmed' \in BOOLEAN
    BY <2>1 DEF ConfirmOff
  <2>2. ASSUME FailOff
        PROVE  rig' \in BOOLEAN /\ latch' \in BOOLEAN /\ confirmed' \in BOOLEAN
    BY <2>2 DEF FailOff, AfterFailed, FlagsOK
  <2>3. rig' \in BOOLEAN /\ latch' \in BOOLEAN /\ confirmed' \in BOOLEAN
    BY <1>21, <2>1, <2>2 DEF ForceOff
  <2>4. pttActive' \in BOOLEAN /\ offOk' \in BOOLEAN
    BY <1>21 DEF ForceOff, FlagsOK
  <2>5. UNCHANGED <<cat, left, manual, opened, ready, registered, switchFailed>>
    BY <1>21 DEF ForceOff
  <2>6. QED
    BY <2>3, <2>4, <2>5 DEF FlagsOK
<1>22. CASE ReapChildren
  BY <1>22 DEF ReapChildren, FlagsOK
<1>23. CASE RecheckLatch
  BY <1>23 DEF RecheckLatch, LatchAfterRecheck, FlagsOK
<1>24. CASE ReplayUnkey
  <2>1. ASSUME ConfirmOff
        PROVE  rig' \in BOOLEAN /\ latch' \in BOOLEAN /\ confirmed' \in BOOLEAN
    BY <2>1 DEF ConfirmOff
  <2>2. ASSUME FailOff
        PROVE  rig' \in BOOLEAN /\ latch' \in BOOLEAN /\ confirmed' \in BOOLEAN
    BY <2>2 DEF FailOff, AfterFailed, FlagsOK
  <2>3. rig' \in BOOLEAN /\ latch' \in BOOLEAN /\ confirmed' \in BOOLEAN
    BY <1>24, <2>1, <2>2 DEF ReplayUnkey, FlagsOK
  <2>4. pttActive' \in BOOLEAN
    BY <1>24 DEF ReplayUnkey, FlagsOK
  <2>5. QED
    BY <1>24, <2>3, <2>4 DEF ReplayUnkey, FlagsOK
<1>25. CASE StartLink
  BY <1>25 DEF StartLink, AttachRadio, DetachRadio, FlagsOK
<1>26. CASE StartBails \/ StartRefused
  <2>1. rig' \in BOOLEAN /\ cat' \in BOOLEAN /\ left' \in BOOLEAN
    BY <1>26, StartSteps, AttachSteps DEF FlagsOK
  <2>2. QED
    BY <1>26, <2>1 DEF StartBails, StartRefused, FlagsOK
<1>27. CASE RestartDone
  <2>1. switchFailed' \in BOOLEAN
    BY <1>27 DEF RestartDone, FlagsOK
  <2>2. /\ UNCHANGED <<rig, cat, left, pttActive, manual, opened, ready, latch>>
        /\ UNCHANGED <<confirmed, registered, offOk>>
    BY <1>27 DEF RestartDone
  <2>3. QED
    BY <2>1, <2>2 DEF FlagsOK
<1>28. CASE SwitchDone
  <2>1. switchFailed' \in BOOLEAN
    BY <1>28 DEF SwitchDone
  <2>2. /\ UNCHANGED <<rig, cat, left, pttActive, manual, opened, ready, latch>>
        /\ UNCHANGED <<confirmed, registered, offOk>>
    BY <1>28 DEF SwitchDone
  <2>3. QED
    BY <2>1, <2>2 DEF FlagsOK
<1>29. CASE ReleaseOrphans
  BY <1>29 DEF ReleaseOrphans, FlagsOK
<1>30. QED
  BY <1>1, <1>2, <1>3, <1>4, <1>5, <1>6, <1>7, <1>8, <1>9, <1>10, <1>11, <1>12, <1>13,
     <1>14, <1>15, <1>16, <1>17, <1>18, <1>19, <1>20, <1>21, <1>22, <1>23, <1>24, <1>25,
     <1>26, <1>27, <1>28, <1>29 DEF Next, Worker, Loop, Dog, Teardown, Restart, vars

\* Every task stays at a place of its control.
LEMMA PlacesStep ==
  ASSUME PlacesOK, [Next]_vars
  PROVE  PlacesOK'
<1> USE RigLinkAssumption DEF txVars, radioVars, loopVars, dogVars, latchVars, muteVars,
     supVars
<1>1. CASE TogglePtt \/ AgeOut
  BY <1>1 DEF TogglePtt, AgeOut, PlacesOK, Serving
<1>2. CASE WorkerRaises
  BY <1>2 DEF WorkerRaises, PlacesOK, Serving
<1>3. CASE WorkerGate
  BY <1>3 DEF WorkerGate, HardMuted, PlacesOK, Serving
<1>4. CASE WorkerKeys
  BY <1>4 DEF WorkerKeys, Sent, PlacesOK, Serving
<1>5. CASE WorkerUnkeys
  BY <1>5 DEF WorkerUnkeys, Sent, PlacesOK, Serving
<1>6. CASE WorkerLowers
  BY <1>6 DEF WorkerLowers, PlacesOK, Serving
<1>7. CASE UNCHANGED vars
  BY <1>7 DEF vars, PlacesOK, Serving
<1>8. CASE LoopStartup
  <2>1. untimed' \in {untimed, "no"}
    BY <1>8 DEF LoopStartup, ConfirmOff, FailOff, TimedAfterOff
  <2>2. pttSafe' \in {pttSafe, "true", "false"}
    BY <1>8 DEF LoopStartup
  <2>3. loop' = "opening" /\ UNCHANGED <<worker, status, sup, cause>>
    BY <1>8 DEF LoopStartup
  <2>4. QED
    BY <2>1, <2>2, <2>3 DEF PlacesOK
<1>9. CASE LoopOpen
  BY <1>9 DEF LoopOpen, DogAlive, PlacesOK, Serving
<1>10. CASE LoopTakes
  BY <1>10 DEF LoopTakes, DogAlive, PlacesOK, Serving
<1>11. CASE LoopKeys
  BY <1>11 DEF LoopKeys, AfterFailed, PlacesOK, Serving
<1>12. CASE LoopUnkeys
  BY <1>12 DEF LoopUnkeys, ConfirmOff, AfterFailed, TimedAfterOff, PlacesOK, Serving
<1>13. CASE LoopBails
  BY <1>13 DEF LoopBails, DogAlive, PlacesOK, Serving
<1>14. CASE LoopCrash
  BY <1>14 DEF LoopCrash, InFlight, AfterFailed, PlacesOK, Serving
<1>15. ASSUME NEW g \in Generation, DogCuts(g)
      PROVE  PlacesOK'
  <2>1. untimed' \in {untimed, "no"}
    BY <1>15 DEF DogCuts, TimedAfterOff
  <2>2. QED
    BY <1>15, <2>1 DEF DogCuts, PlacesOK
<1>16. ASSUME NEW g \in Generation, DogCounts(g)
      PROVE  PlacesOK'
  BY <1>16 DEF DogCounts, Rekeyed, PlacesOK, Serving
<1>17. ASSUME NEW g \in Generation, DogSwaps(g)
      PROVE  PlacesOK'
  BY <1>17 DEF DogSwaps, Rekeyed, PlacesOK, Serving
<1>18. ASSUME NEW g \in Generation, DogClears(g)
      PROVE  PlacesOK'
  BY <1>18 DEF DogClears, Rekeyed, PlacesOK, Serving
<1>19. ASSUME NEW g \in Generation, DogEnds(g)
      PROVE  PlacesOK'
  BY <1>19 DEF DogEnds, PlacesOK
<1>20. CASE HealthPass
  BY <1>20 DEF HealthPass, MayRestart, PlacesOK, Serving
<1>21. CASE SwitchAsked
  BY <1>21 DEF SwitchAsked, PlacesOK, Serving
<1>22. CASE SwitchStops
  BY <1>22 DEF SwitchStops, InFlight, AfterFailed, PlacesOK, Serving
<1>23. CASE AbortOrphans
  BY <1>23 DEF AbortOrphans, PlacesOK, Serving
<1>24. CASE ForceOff
  <2>1. untimed' \in {untimed, "no"}
    BY <1>24 DEF ForceOff, ConfirmOff, FailOff, TimedAfterOff
  <2>2. QED
    BY <1>24, <2>1 DEF ForceOff, PlacesOK
<1>25. CASE ReapChildren
  BY <1>25 DEF ReapChildren, PlacesOK, Serving
<1>26. CASE RecheckLatch
  BY <1>26 DEF RecheckLatch, LatchAfterRecheck, PlacesOK, Serving
<1>27. CASE DrainChannel
  BY <1>27 DEF DrainChannel, PlacesOK, Serving
<1>28. CASE ReplayUnkey
  <2>1. untimed' \in {untimed, "no"}
    BY <1>28 DEF ReplayUnkey, ConfirmOff, FailOff, TimedAfterOff
  <2>2. QED
    BY <1>28, <2>1 DEF ReplayUnkey, PlacesOK
<1>29. CASE DecideRestart
  BY <1>29 DEF DecideRestart, MayRestart, LeakInhibit, PlacesOK, Serving
<1>30. CASE StartLink
  BY <1>30 DEF StartLink, AttachRadio, DetachRadio, PlacesOK, Serving
<1>31. CASE StartBails \/ StartRefused
  <2>1. untimed' \in {untimed, "no", "left"}
    BY <1>31, StartSteps, AttachSteps
  <2>2. QED
    BY <1>31, <2>1 DEF StartBails, StartRefused, PlacesOK
<1>32. CASE AwaitLoop
  BY <1>32 DEF AwaitLoop, LoopDropped, PlacesOK, Serving
<1>33. CASE ReleaseOrphans
  BY <1>33 DEF ReleaseOrphans, OrphanReleaseIsSafe, DogAlive, PlacesOK, Serving
<1>34. CASE RestartDone
  BY <1>34 DEF RestartDone, RepayInhibit, LeakInhibit, PlacesOK, Serving
<1>35. CASE SwitchDone
  BY <1>35 DEF SwitchDone, SwitchRepays, LeakInhibit, RepayInhibit, PlacesOK, Serving
<1>36. ASSUME NEW g \in Generation, DogFires(g)
      PROVE  PlacesOK'
  BY <1>36 DEF DogFires, PlacesOK, Serving
<1>37. QED
  BY <1>1, <1>2, <1>3, <1>4, <1>5, <1>6, <1>7, <1>8, <1>9, <1>10, <1>11, <1>12, <1>13,
     <1>14, <1>15, <1>16, <1>17, <1>18, <1>19, <1>20, <1>21, <1>22, <1>23, <1>24, <1>25,
     <1>26, <1>27, <1>28, <1>29, <1>30, <1>31, <1>32, <1>33, <1>34, <1>35, <1>36 DEF
     Next, Worker, Loop, Dog, Teardown, Restart, vars

\* The counters keep their bounds, and the inhibit does not wrap.
LEMMA CountersStep ==
  ASSUME CountersOK, InhibitIsOwed, [Next]_vars
  PROVE  CountersOK'
<1> USE RigLinkAssumption DEF txVars, radioVars, loopVars, dogVars, latchVars, muteVars,
     supVars
<1>1. CASE Loop \/ LoopCrash
  BY <1>1, LoopSteps DEF CountersOK
<1>2. CASE WorkerGate \/ WorkerKeys \/ WorkerUnkeys \/ WorkerLowers \/ SwitchAsked \/
            ReapChildren
  BY <1>2 DEF WorkerGate, WorkerKeys, WorkerUnkeys, WorkerLowers, SwitchAsked,
     ReapChildren, CountersOK
<1>3. CASE RecheckLatch \/ DrainChannel \/ ReplayUnkey \/ StartLink \/ StartBails \/
            StartRefused \/ AwaitLoop \/ ReleaseOrphans
  BY <1>3 DEF RecheckLatch, DrainChannel, ReplayUnkey, StartLink, StartBails, StartRefused,
     AwaitLoop, ReleaseOrphans, CountersOK
<1>4. ASSUME NEW g \in Generation, DogFires(g) \/ DogCuts(g) \/ DogCounts(g) \/
             DogSwaps(g) \/ DogClears(g) \/ DogEnds(g)
      PROVE  CountersOK'
  BY <1>4 DEF DogFires, DogCuts, DogCounts, DogSwaps, DogClears, DogEnds, CountersOK
<1>5. CASE WorkerRaises
  BY <1>5 DEF WorkerRaises, CountersOK
<1>6. CASE TogglePtt
  BY <1>6 DEF TogglePtt, HardMuted, Sent, CountersOK
<1>7. CASE AgeOut
  BY <1>7 DEF AgeOut, CountersOK
<1>8. CASE UNCHANGED vars
  BY <1>8 DEF vars, CountersOK
<1>9. CASE HealthPass
  BY <1>9 DEF HealthPass, MayRestart, CountersOK
<1>10. CASE SwitchStops
  BY <1>10 DEF SwitchStops, InFlight, AfterFailed, CountersOK
<1>11. CASE AbortOrphans
  BY <1>11 DEF AbortOrphans, CountersOK
<1>12. CASE ForceOff
  BY <1>12 DEF ForceOff, CountersOK
<1>13. CASE DecideRestart
  BY <1>13 DEF DecideRestart, MayRestart, LeakInhibit, CountersOK
<1>14. CASE RestartDone
  BY <1>14 DEF RestartDone, RepayInhibit, LeakInhibit, CountersOK, InhibitIsOwed
<1>15. CASE SwitchDone
  BY <1>15 DEF SwitchDone, SwitchRepays, RepayInhibit, LeakInhibit, CountersOK,
     InhibitIsOwed
<1>16. QED
  BY <1>1, <1>2, <1>3, <1>4, <1>5, <1>6, <1>7, <1>8, <1>9, <1>10, <1>11, <1>12, <1>13,
     <1>14, <1>15 DEF Next, Worker, Dog, Teardown, Restart, vars

\* The channel keeps its capacity.
LEMMA ChannelStep ==
  ASSUME ChannelOK, [Next]_vars
  PROVE  ChannelOK'
<1> USE RigLinkAssumption DEF txVars, radioVars, loopVars, dogVars, latchVars, muteVars,
     supVars
<1>1. CASE WorkerRaises \/ WorkerGate \/ WorkerLowers \/ AgeOut \/ LoopStartup \/
            LoopOpen \/ LoopKeys \/ LoopUnkeys
  BY <1>1 DEF WorkerRaises, WorkerGate, WorkerLowers, AgeOut, LoopStartup, LoopOpen,
     LoopKeys, LoopUnkeys, ChannelOK
<1>2. CASE LoopBails \/ LoopCrash \/ HealthPass \/ SwitchAsked \/ SwitchStops \/
            AbortOrphans \/ ForceOff \/ ReapChildren
  BY <1>2 DEF LoopBails, LoopCrash, HealthPass, SwitchAsked, SwitchStops, AbortOrphans,
     ForceOff, ReapChildren, ChannelOK
<1>3. CASE RecheckLatch \/ DecideRestart \/ StartLink \/ StartBails \/ StartRefused \/
            AwaitLoop \/ ReleaseOrphans \/ RestartDone \/ SwitchDone
  BY <1>3 DEF RecheckLatch, DecideRestart, StartLink, StartBails, StartRefused, AwaitLoop,
     ReleaseOrphans, RestartDone, SwitchDone, ChannelOK
<1>4. ASSUME NEW g \in Generation, DogFires(g) \/ DogCuts(g) \/ DogCounts(g) \/
             DogSwaps(g) \/ DogClears(g) \/ DogEnds(g)
      PROVE  ChannelOK'
  BY <1>4 DEF DogFires, DogCuts, DogCounts, DogSwaps, DogClears, DogEnds, ChannelOK
<1>5. CASE WorkerKeys
  BY <1>5 DEF WorkerKeys, Sent, ChannelOK
<1>6. CASE WorkerUnkeys
  BY <1>6 DEF WorkerUnkeys, Sent, ChannelOK
<1>7. CASE TogglePtt
  BY <1>7 DEF TogglePtt, HardMuted, Sent, ChannelOK
<1>8. CASE UNCHANGED vars
  BY <1>8 DEF vars, ChannelOK
<1>9. CASE LoopTakes
  BY <1>9 DEF LoopTakes, DogAlive, ChannelOK
<1>10. CASE DrainChannel
  <2> DEFINE Offs == {i \in 1 .. Len(inbox) : inbox[i] = "off"}
  <2>1. Len(inbox) \in Nat /\ DOMAIN inbox = 1 .. Len(inbox)
    BY DEF ChannelOK
  <2>2. IsFiniteSet(1 .. Len(inbox)) /\ Cardinality(1 .. Len(inbox)) = Len(inbox)
    BY <2>1, CountTo
  <2>3. Cardinality(Offs) \in Nat /\ Cardinality(Offs) <= Cardinality(1 .. Len(inbox))
    BY <2>2, FS_Subset, FS_CardinalityType
  <2>4. held' = Cardinality(Offs) /\ inbox' = <<>>
    BY <1>10, <2>1 DEF DrainChannel
  <2> HIDE DEF Offs
  <2>5. QED
    BY <2>1, <2>2, <2>3, <2>4 DEF ChannelOK
<1>11. CASE ReplayUnkey
  BY <1>11 DEF ReplayUnkey, ChannelOK
<1>12. QED
  BY <1>1, <1>2, <1>3, <1>4, <1>5, <1>6, <1>7, <1>8, <1>9, <1>10, <1>11 DEF Next,
     Worker, Loop, Dog, Teardown, Restart, vars

\* Only generations that exist are spoken of.
LEMMA GenerationsStep ==
  ASSUME GenerationsOK, Order, [Next]_vars
  PROVE  GenerationsOK'
<1> USE RigLinkAssumption DEF txVars, radioVars, loopVars, dogVars, latchVars, muteVars,
     supVars
<1>1. CASE Quiet
  BY <1>1 DEF Quiet, GenerationsOK
<1>2. CASE LoopStartup \/ LoopOpen \/ LoopKeys \/ LoopUnkeys \/ LoopBails \/ LoopCrash
            \/ HealthPass \/ SwitchAsked
  BY <1>2 DEF LoopStartup, LoopOpen, LoopKeys, LoopUnkeys, LoopBails, LoopCrash,
     HealthPass, SwitchAsked, GenerationsOK
<1>3. CASE SwitchStops \/ ForceOff \/ RecheckLatch \/ DrainChannel \/ ReplayUnkey \/
            DecideRestart \/ AwaitLoop \/ RestartDone \/ SwitchDone
  BY <1>3 DEF SwitchStops, ForceOff, RecheckLatch, DrainChannel, ReplayUnkey,
     DecideRestart, AwaitLoop, RestartDone, SwitchDone, GenerationsOK
<1>4. CASE LoopTakes
  BY <1>4 DEF LoopTakes, DogAlive, GenerationsOK
<1>5. ASSUME NEW g \in Generation, DogFires(g)
      PROVE  GenerationsOK'
  BY <1>5 DEF DogFires, GenerationsOK
<1>6. ASSUME NEW g \in Generation, DogCuts(g)
      PROVE  GenerationsOK'
  BY <1>6 DEF DogCuts, TimedAfterOff, AfterFailed, GenerationsOK
<1>7. ASSUME NEW g \in Generation, DogCounts(g)
      PROVE  GenerationsOK'
  BY <1>7 DEF DogCounts, Rekeyed, GenerationsOK
<1>8. ASSUME NEW g \in Generation, DogSwaps(g)
      PROVE  GenerationsOK'
  BY <1>8 DEF DogSwaps, Rekeyed, GenerationsOK
<1>9. ASSUME NEW g \in Generation, DogClears(g)
      PROVE  GenerationsOK'
  BY <1>9 DEF DogClears, Rekeyed, GenerationsOK
<1>10. ASSUME NEW g \in Generation, DogEnds(g)
      PROVE  GenerationsOK'
  BY <1>10 DEF DogEnds, AfterFailed, ReadyAfterDrop, GenerationsOK
<1>11. CASE AbortOrphans
  BY <1>11 DEF AbortOrphans, GenerationsOK
<1>12. CASE ReapChildren
  <2>1. children = 0 \/ children \in Generation
    BY DEF GenerationsOK, Generation
  <2>2. children' \in 0 .. MaxGenerations /\ UNCHANGED <<gen, since, dog>>
    BY <1>12 DEF ReapChildren
  <2>3. stop' \subseteq Generation /\ orphans' \subseteq Generation
    BY <1>12, <2>1 DEF ReapChildren, GenerationsOK
  <2>4. QED
    BY <2>2, <2>3 DEF GenerationsOK
<1>13. CASE StartLink
  BY <1>13 DEF StartLink, GenerationsOK, Generation, Order, Torn
<1>14. CASE StartBails \/ StartRefused
  <2>1. UNCHANGED <<since, dog, stop, children, orphans>> /\ gen' = gen + 1 /\ sup = "start"
    BY <1>14 DEF StartBails, StartRefused
  <2>2. QED
    BY <2>1 DEF GenerationsOK, Generation, Order, Torn
<1>15. CASE ReleaseOrphans
  BY <1>15 DEF ReleaseOrphans, OrphanReleaseIsSafe, DogAlive, GenerationsOK
<1>16. QED
  BY <1>1, <1>2, <1>3, <1>4, <1>5, <1>6, <1>7, <1>8, <1>9, <1>10, <1>11, <1>12, <1>13,
     <1>14, <1>15, QuietSteps DEF Next, Loop, Dog, Teardown, Restart

\* Every step keeps the state well typed; the inhibit counter cannot wrap
\* because what a restart pays back is owed.
LEMMA TypeStep ==
  ASSUME TypeOK, Order, InhibitIsOwed, [Next]_vars
  PROVE  TypeOK'
<1>1. FlagsOK /\ PlacesOK /\ CountersOK /\ ChannelOK /\ GenerationsOK
  BY TypeParts
<1>2. FlagsOK' /\ PlacesOK'
  BY <1>1, FlagsStep, PlacesStep
<1>3. CountersOK' /\ ChannelOK' /\ GenerationsOK'
  BY <1>1, CountersStep, ChannelStep, GenerationsStep
<1>4. QED
  BY <1>2, <1>3 DEF TypeOK, FlagsOK, PlacesOK, CountersOK, ChannelOK, GenerationsOK

-----------------------------------------------------------------------------
\* The link starts connected, ready and unkeyed.
LEMMA RigInit ==
  ASSUME Init
  PROVE  RigInv
<1>1. TypeOK
  <2>1. dog \in [Generation -> {"none", "watch"}] /\ 1 \in Generation
    BY RigLinkAssumption DEF Init, Generation
  <2>2. GenerationsOK
    BY <2>1, RigLinkAssumption DEF Init, GenerationsOK
  <2>3. CountersOK /\ ChannelOK
    BY RigLinkAssumption DEF Init, CountersOK, ChannelOK
  <2>4. FlagsOK /\ PlacesOK
    BY DEF Init, FlagsOK, PlacesOK, Serving
  <2>5. QED
    BY <2>2, <2>3, <2>4, TypeParts
<1>2. Order /\ Past
  BY RigLinkAssumption DEF Init, Order, Past, Torn, DogAlive, Generation
<1>3. InhibitIsOwed /\ InhibitHolds /\ ReadyIsTrue /\ LatchIsTrue
  BY RigLinkAssumption DEF Init, InhibitIsOwed, InhibitHolds, ReadyIsTrue, LatchIsTrue, Serving,
     DogAlive, Generation
<1>4. StuckIsReported /\ KeyedIsTimed /\ TeardownIsTrue /\ SafeIsTimed
  BY DEF Init, StuckIsReported, KeyedIsTimed, TeardownIsTrue, SafeIsTimed
<1>5. QED
  BY <1>1, <1>2, <1>3, <1>4 DEF RigInv

\* RigInv is inductive.
LEMMA RigStep ==
  ASSUME RigInv, [Next]_vars
  PROVE  RigInv'
<1> USE DEF RigInv
<1>1. TypeOK' /\ Order' /\ Past'
  BY TypeStep, OrderStep, PastStep
<1>2. InhibitIsOwed' /\ InhibitHolds' /\ ReadyIsTrue' /\ LatchIsTrue'
  BY InhibitStep, HoldStep, ReadyStep, LatchStep
<1>3. StuckIsReported' /\ KeyedIsTimed' /\ TeardownIsTrue' /\ SafeIsTimed'
  BY StuckStep, KeyedStep, TearStep, SafeStep
<1>4. QED
  BY <1>1, <1>2, <1>3

\* RigInv holds in every reachable state.
LEMMA RigInvariant == Spec => []RigInv
  BY RigInit, RigStep, PTL DEF Spec

-----------------------------------------------------------------------------
\* The rig link is type correct: the Hamlib channel keeps its capacity, a
\* teardown makes at most OffAttempts attempts, and the TX inhibit never wraps
\* below zero when a restart pays back every leaked one.
THEOREM RigTypeCorrect == Spec => []TypeOK
<1>1. RigInv => TypeOK
  BY DEF RigInv
<1>2. QED
  BY <1>1, RigInvariant, PTL

\* Every inhibit of TX is owed to a restart under way, to a link that was given
\* up or to a failed switch: none is leaked by a path that forgets it, and none
\* is paid back twice.
THEOREM EveryInhibitIsOwed == Spec => []InhibitIsOwed
<1>1. RigInv => InhibitIsOwed
  BY DEF RigInv
<1>2. QED
  BY <1>1, RigInvariant, PTL

\* Readiness is shown exactly while the current loop serves and its watchdog
\* lives: the guard of a watchdog that outlived its generation never takes the
\* readiness of the next.
THEOREM ReadinessIsTrue == Spec => []ReadyIsTrue
<1>1. RigInv => ReadyIsTrue
  BY DEF RigInv
<1>2. QED
  BY <1>1, RigInvariant, PTL

\* The stuck-PTT warning does not outlive a confirmed PTT-off, whichever of the
\* teardown, the new loop and an orphaned watchdog got the confirmation.
THEOREM WarningIsCurrent == Spec => []LatchIsTrue
<1>1. RigInv => LatchIsTrue
  BY DEF RigInv
<1>2. QED
  BY <1>1, RigInvariant, PTL

\* What the invariant says of a radio that stays keyed: a live link's generation
\* times it or it is reported, and one whose link was torn down is reported.
LEMMA KeyedFollows ==
  ASSUME RigInv
  PROVE  KeyedIsKnown
<1> SUFFICES ASSUME rig, Settled, TornDown
             PROVE  Guarded \/ Reported
  BY DEF KeyedIsKnown, Reported
<1>1. CASE registered
  <2>1. loop \notin {"off", "dead"} /\ DogAlive(gen) /\ gen \notin stop
    BY <1>1 DEF Settled, RigInv, Order
  <2>2. gen \in since \/ Reported
    BY <2>1 DEF RigInv, KeyedIsTimed
  <2>3. QED
    BY <2>1, <2>2 DEF Guarded
<1>2. CASE ~registered
  BY <1>2 DEF TornDown, RigInv, StuckIsReported
<1>3. QED
  BY <1>1, <1>2

\* The radio that rigctld drives, if it stays keyed, is timed by a live watchdog
\* or reported as possibly keyed, across crashes of the loop and the watchdog,
\* failed teardowns, refused starts, restarts and switches to another radio.
THEOREM StuckRigIsKnown == Spec => []KeyedIsKnown
  BY RigInvariant, KeyedFollows, PTL

\* Only a start leaves a radio behind, and by then the teardown has reported a
\* rig that is still keyed.
LEMMA LeaveStep ==
  ASSUME RigInv, [Next]_vars, rig, left', ~left
  PROVE  Reported
<1>1. StartLink \/ StartBails \/ StartRefused
  BY LoopSteps, DogSteps, QuietSteps DEF Next, RigInv, Quiet, loopVars, radioVars, Teardown,
     Restart, HealthPass, SwitchAsked, SwitchStops, AbortOrphans, ForceOff, ReapChildren,
     RecheckLatch, DrainChannel, ReplayUnkey, DecideRestart, AwaitLoop, ReleaseOrphans,
     RestartDone, SwitchDone
<1>2. sup = "start" /\ children = 0
  BY <1>1, StartSteps DEF RigInv, Order
<1>3. QED
  BY <1>2 DEF RigInv, StuckIsReported

\* A restart or a rig switch that leaves a keyed radio behind has reported it by
\* then, unless its timer had been stopped in one of the three exempt ways.
THEOREM LeftRadioIsReported == Spec => LeftIsReported
<1> DEFINE Leaves == rig /\ left' /\ ~left => latch \/ untimed # "no"
<1>1. RigInv /\ [Next]_vars => [Leaves]_vars
  BY LeaveStep DEF Reported
<1>2. QED
  BY <1>1, RigInvariant, PTL DEF Spec, LeftIsReported

\* Releasing the orphaned watchdogs keeps a keyed rig timed: ptt_safe was sent
\* only after the new loop had the rig off or its own timer running.
LEMMA ReleaseStep ==
  ASSUME RigInv, [Next]_vars, sup = "release", sup' # "release", rig, Guarded,
         untimed = "no", loop \notin {"off", "dead"}
  PROVE  Guarded'
<1>1. ReleaseOrphans
  BY LoopSteps, DogSteps, QuietSteps DEF Next, RigInv, Quiet, supVars, Teardown, Restart,
     HealthPass,
     SwitchAsked, SwitchStops, AbortOrphans, ForceOff, ReapChildren, RecheckLatch,
     DrainChannel, ReplayUnkey, DecideRestart, StartLink, StartBails, StartRefused, AwaitLoop,
     RestartDone, SwitchDone
<1>2. UNCHANGED <<dog, since>>
  BY <1>1 DEF ReleaseOrphans
<1>3. CASE OrphanReleaseIsSafe
  <2>1. registered /\ children = gen /\ gen \notin stop /\ gen \notin orphans
    BY DEF RigInv, Order
  <2>2. DogAlive(gen) /\ gen \in since
    BY <1>3, <2>1 DEF OrphanReleaseIsSafe, RigInv, SafeIsTimed
  <2>3. gen \notin stop'
    BY <1>1, <1>3, <2>1 DEF ReleaseOrphans
  <2>4. QED
    BY <1>2, <2>2, <2>3 DEF Guarded, DogAlive
<1>4. CASE ~OrphanReleaseIsSafe
  BY <1>1, <1>2, <1>4 DEF ReleaseOrphans, Guarded, DogAlive
<1>5. QED
  BY <1>3, <1>4

\* A restart never aborts the last watchdog that times the radio that rigctld
\* drives while it is keyed: the watchdogs of every generation reach that radio,
\* and no other.
THEOREM RestartKeepsWatch == Spec => ReleaseKeepsWatch
<1> DEFINE KeepsWatch ==
      (sup = "release" /\ sup' # "release" /\ rig /\ Guarded
         /\ untimed = "no" /\ loop \notin {"off", "dead"}) => Guarded'
<1>1. RigInv /\ [Next]_vars => [KeepsWatch]_vars
  BY ReleaseStep
<1>2. QED
  BY <1>1, RigInvariant, PTL DEF Spec, ReleaseKeepsWatch
=============================================================================
