------------------------------ MODULE QsoEngine ------------------------------
(***************************************************************************)
(* The QSO manager: the map of QSOs, the callsign index, and the tasks     *)
(* that change them.                                                       *)
(*                                                                         *)
(* Two tasks run concurrently.  The coordinator's loop takes decoded       *)
(* frames and operator commands one at a time; a decode first finds the    *)
(* QSOs it concerns under the read lock and then updates each of them      *)
(* under the write lock, so the other task can run in between.  The        *)
(* watchdog task repeats the pass "rearm the calls, scan for timeouts,     *)
(* retire what the scan collected" every five seconds; it gives the lock   *)
(* up after the rearming and after every retirement.                       *)
(*                                                                         *)
(* Time is counted in 15 s slots, and every timestamp is kept as an age:   *)
(* the number of slots since it was taken, up to a cap past which no test  *)
(* of the code tells two ages apart.  A frame is remembered while another   *)
(* copy of it may be decoded.                                              *)
(*                                                                         *)
(* Frames whose audio offset a QSO's relevance gate refuses are frames     *)
(* that do not reach it; which QSOs a frame is near is left open.  Remote  *)
(* origin, the contest and Hound procedures, the unsent-attempt ledger's   *)
(* roll-backs and the offset moves are not modelled.                       *)
(***************************************************************************)
EXTENDS QsoLadder, FiniteSets, FiniteSetsExt

CONSTANTS
    MaxQsos,      \* bound: how many QSOs are ever opened
    MaxCopies,    \* how many times one transmission is decoded
    MaxCalls,     \* manual_call_max_calls
    StateTimeout, \* cq_timeout, report_timeout and confirmation_timeout
    Watchdog,     \* manual_call_watchdog_minutes
    RepeatLimit,  \* repetitive_tx_timeout_secs
    Retention,    \* UNSENT_ATTEMPT_RETENTION_SLOTS
    ReworkGrace,  \* COMPLETED_QSO_REWORK_GRACE
    AgeCap,       \* bound: the age at which a timestamp stops ageing
    Operations    \* the commands this instance uses

AllOperations == {"start_cq", "start_cq_manual", "respond_to_cq", "respond_to_cq_manual",
                  "respond_to_caller", "resend_last_tx", "cancel_qso", "mute", "cleanup"}

ASSUME EngineAssumption ==
    /\ {MaxQsos, MaxCopies, MaxCalls} \subseteq Nat \ {0}
    /\ {StateTimeout, Watchdog, RepeatLimit, Retention, ReworkGrace, AgeCap} \subseteq Nat
    /\ \A limit \in {StateTimeout, Watchdog, RepeatLimit, Retention, ReworkGrace, 1} :
           limit < AgeCap
    /\ Operations \subseteq AllOperations

VARIABLES
    qsos,     \* the QSO map; an id that is not in it is at stage "Absent"
    born,     \* how many ids have been handed out, in order
    mapped,   \* qsos_by_callsign
    rx,       \* the decode being applied: its frame and the QSOs still to update
    heard,    \* each station's transmission in this slot and its copies decoded
    muted,    \* the transmit policy or the rig keeps every frame off the air
    watchdog, \* where the watchdog task is in its pass
    doomed,   \* the ids the scan collected and has not retired yet
    scanned,  \* a scan has run since the last frame of this slot was applied
    logged,   \* QsoCompleted events emitted, per id
    failed    \* ids for which QsoFailed was emitted

vars == <<qsos, born, mapped, rx, heard, muted, watchdog, doomed, scanned, logged, failed>>

QsoIds == 1..MaxQsos
Ages   == 0..AgeCap
AUTO_RESEND_MAX_CALLS == 2
CallCap == Max({MaxCalls, AUTO_RESEND_MAX_CALLS})

NoFrame == [kind |-> "none"]
Idle    == [frame |-> NoFrame, ids |-> {}]

Steps == {"Report", "ReportAck", "Rr73", "SeventyThree"}

(***************************************************************************)
(* A QSO record.  last and aired are what its message list says: the last  *)
(* frame Sent, and the report in the last such frame that had one.         *)
(* logGrid is the grid in its metadata.                                    *)
(***************************************************************************)
Absent ==
    [stage |-> "Absent", partner |-> NoStation, theirs |-> NoReport, ours |-> NoReport,
     grid |-> NoStation, cqer |-> FALSE, manual |-> FALSE, calls |-> 0,
     progressed |-> FALSE, inStage |-> 0, sinceFirst |-> 0, sinceCall |-> 0,
     sinceAttempt |-> 0, last |-> Nothing, aired |-> NoReport,
     logGrid |-> NoStation]

Qso ==
    [stage: ActiveStages \cup {"Absent", "Completed", "Failed"},
     partner: Stations \cup {NoStation}, theirs: Reports \cup {NoReport},
     ours: Reports \cup {NoReport}, grid: Stations \cup {NoStation},
     cqer: BOOLEAN, manual: BOOLEAN, calls: 0..CallCap, progressed: BOOLEAN,
     inStage: Ages, sinceFirst: Ages, sinceCall: Ages, sinceAttempt: Ages,
     last: OurFrames, aired: Reports \cup {NoReport},
     logGrid: Stations \cup {NoStation}]

Active(q)  == q.stage \in ActiveStages
Proto(q)   == Rung(q.stage, q.partner, q.theirs, q.ours, q.grid)
\* A timestamp ages up to the limit past which no test tells its age.
Older(age, limit) == Min({age + 1, limit})
OneMore(n) == Min({n + 1, CallCap})

\* Emit a frame: it becomes the QSO's last Sent message.
Emit(q, frame) ==
    [q EXCEPT !.last = frame,
              !.aired = IF frame.report = NoReport THEN @ ELSE frame.report]

Init ==
    /\ qsos = [id \in QsoIds |-> Absent]
    /\ born = 0
    /\ mapped = [s \in Stations |-> {}]
    /\ rx = Idle
    /\ heard = [s \in Stations |-> [frame |-> NoFrame, copies |-> 0]]
    /\ muted = FALSE
    /\ watchdog = "idle"
    /\ doomed = {}
    /\ scanned = FALSE
    /\ logged = [id \in QsoIds |-> 0]
    /\ failed = {}

(***************************************************************************)
(* Opening a QSO.                                                          *)
(***************************************************************************)
Opened(rung, cqer, manual, frame) ==
    Emit([stage |-> rung.stage, partner |-> rung.partner, theirs |-> rung.theirs,
          ours |-> rung.ours, grid |-> rung.grid, cqer |-> cqer, manual |-> manual,
          calls |-> 1, progressed |-> FALSE, inStage |-> 0, sinceFirst |-> 0,
          sinceCall |-> 0, sinceAttempt |-> Retention + 1, last |-> Nothing,
          aired |-> NoReport, logGrid |-> NoStation],
         frame)

LoopIsFree == rx = Idle

StartCq(manual) ==
    /\ LoopIsFree
    /\ born < MaxQsos
    /\ born' = born + 1
    /\ qsos' = [qsos EXCEPT ![born'] =
                   Opened(Rung("CallingCq", NoStation, NoReport, NoReport, NoStation),
                          TRUE, manual, IF manual THEN Sends("Cq") ELSE Nothing)]
    /\ UNCHANGED <<mapped, rx, heard, muted, watchdog, doomed, scanned, logged, failed>>

\* find_active_manual_qso_for: the newest active manual QSO the index has for s.
ActiveManual(s) == {id \in mapped[s] : Active(qsos[id]) /\ qsos[id].manual}

\* Mutant: the grace ends one slot early.
RecentlyCompletedShort(s) ==
    {id \in mapped[s] : /\ qsos[id].stage = "Completed"
                        /\ qsos[id].manual
                        /\ qsos[id].inStage < ReworkGrace}

\* find_recently_completed_manual_qso_for
RecentlyCompleted(s) ==
    {id \in mapped[s] : /\ qsos[id].stage = "Completed"
                        /\ qsos[id].manual
                        /\ qsos[id].inStage <= ReworkGrace}

\* supersede_active_qsos_for: the active QSOs the index has for s fail.
Superseded(s) == {id \in mapped[s] : Active(qsos[id])}

Supersede(s) ==
    [id \in QsoIds |-> IF id \in Superseded(s)
                       THEN [qsos[id] EXCEPT !.stage = "Failed", !.inStage = 0]
                       ELSE qsos[id]]

\* Supersede s's QSOs and insert q, indexed under s.
OpenFor(s, q) ==
    /\ born < MaxQsos
    /\ born' = born + 1
    /\ qsos' = [Supersede(s) EXCEPT ![born'] = q]
    /\ mapped' = [mapped EXCEPT ![s] = (@ \ Superseded(s)) \cup {born'}]
    /\ failed' = failed \cup Superseded(s)
    /\ logged' = IF q.stage = "Completed" THEN [logged EXCEPT ![born'] = @ + 1] ELSE logged

\* charge_resend_locked: repeat the last Sent message, if there is one.
Resend(id) ==
    /\ qsos' = IF qsos[id].last = Nothing
               THEN qsos
               ELSE [qsos EXCEPT ![id].calls = OneMore(@), ![id].sinceCall = 0,
                                 ![id].sinceAttempt = 0]
    /\ UNCHANGED <<born, mapped, logged, failed>>

\* check_duplicate: an exchange in progress, or one that was completed.
IsDuplicate(s) ==
    \E id \in QsoIds : /\ qsos[id].partner = s
                       /\ Active(qsos[id]) \/ qsos[id].stage = "Completed"

CallOpening(s) == Rung("RespondingToCq", s, NoReport, NoReport, NoStation)

RespondToCq(s, manual) ==
    /\ LoopIsFree
    /\ IF manual /\ ActiveManual(s) # {}
       THEN Resend(Max(ActiveManual(s)))
       ELSE /\ manual \/ ~IsDuplicate(s)
            /\ OpenFor(s, Opened(CallOpening(s), FALSE, manual, Sends("CqResponse")))
    /\ UNCHANGED <<rx, heard, muted, watchdog, doomed, scanned>>

(***************************************************************************)
(* respond_to_caller at a step past the grid: advance the active manual    *)
(* QSO, or repeat its frame when it is not behind; repeat the frame of one *)
(* just completed when the step closes; otherwise open a QSO at that rung. *)
(***************************************************************************)
StepRung(s, step, ours, theirs) ==
    CASE step = "Report"       -> Rung("SendingReport", s, NoReport, ours, NoStation)
      [] step = "ReportAck"    -> Rung("SendingReport", s, theirs, ours, NoStation)
      [] step = "Rr73"         -> Rung("WaitingForConfirmation", s, theirs, ours, NoStation)
      [] step = "SeventyThree" -> Rung("Completed", s, theirs, ours, NoStation)

StepFrame(step, ours) ==
    CASE step = "Report"       -> SendsReport("SignalReport", ours)
      [] step = "ReportAck"    -> SendsReport("ReportAck", ours)
      [] step = "Rr73"         -> Sends("FinalConfirmation")
      [] step = "SeventyThree" -> Sends("SeventyThree")

\* The rung of the step, comparable with LadderRank.
StepLadderRank(step) ==
    CASE step \in {"Report", "ReportAck"} -> 2
      [] step = "Rr73"                    -> 3
      [] step = "SeventyThree"            -> 4

IsClosing(step) == StepLadderRank(step) >= 3

\* advance_existing_qso_to_step
Advance(id, rung, frame) ==
    /\ qsos' = [qsos EXCEPT ![id] =
                   Emit([@ EXCEPT !.stage = rung.stage, !.theirs = rung.theirs,
                                  !.ours = rung.ours, !.grid = rung.grid, !.inStage = 0],
                        frame)]
    /\ logged' = IF rung.stage = "Completed" THEN [logged EXCEPT ![id] = @ + 1] ELSE logged
    /\ UNCHANGED <<born, mapped, failed>>

\* The rank of a stage that is not on the ladder compares with no step.
StepIsAhead(q, step) == LadderRank(q) > 0 /\ StepLadderRank(step) > LadderRank(q)

RespondToCaller(s, step, ours, theirs) ==
    LET rung  == StepRung(s, step, ours, theirs)
        frame == StepFrame(step, ours)
        id    == Max(ActiveManual(s))
    IN  /\ LoopIsFree
        /\ IF ActiveManual(s) # {}
           THEN IF StepIsAhead(qsos[id], step) THEN Advance(id, rung, frame) ELSE Resend(id)
           ELSE IF IsClosing(step) /\ RecentlyCompleted(s) # {}
                THEN Resend(CHOOSE i \in RecentlyCompleted(s) :
                                \A j \in RecentlyCompleted(s) :
                                    qsos[i].inStage <= qsos[j].inStage)
                ELSE OpenFor(s, Opened(rung, FALSE, TRUE, frame))
        /\ UNCHANGED <<rx, heard, muted, watchdog, doomed, scanned>>

ResendLastTx(id) ==
    /\ LoopIsFree
    /\ qsos[id].stage # "Absent"
    /\ Resend(id)
    /\ UNCHANGED <<rx, heard, muted, watchdog, doomed, scanned>>

(***************************************************************************)
(* Ending a QSO from outside: the operator cancels it, or the cleanup task *)
(* drops a record that has been terminal for an hour.                      *)
(***************************************************************************)
Unmapped(id) == [s \in Stations |-> mapped[s] \ {id}]

CancelQso(id) ==
    /\ LoopIsFree
    /\ qsos[id].stage # "Absent"
    /\ qsos' = [qsos EXCEPT ![id] = Absent]
    /\ mapped' = Unmapped(id)
    /\ failed' = failed \cup {id}
    /\ UNCHANGED <<born, rx, heard, muted, watchdog, doomed, scanned, logged>>

CleanupCompleted(id) ==
    /\ qsos[id].stage \in {"Completed", "Failed"}
    /\ qsos[id].inStage = AgeCap
    /\ qsos' = [qsos EXCEPT ![id] = Absent]
    /\ mapped' = Unmapped(id)
    /\ UNCHANGED <<born, rx, heard, muted, watchdog, doomed, scanned, logged, failed>>

(***************************************************************************)
(* A decode.  find_qsos_for_message keeps the active QSOs it is relevant   *)
(* to: for the frames a stage expects the sender is checked, any other     *)
(* frame addressed to us passes.  Of several open CQs only the earliest    *)
(* takes the answer, and none does while its sender is being worked or was *)
(* worked a moment ago.                                                    *)
(***************************************************************************)
Expected(stage) ==
    CASE stage = "WaitingForReport"       -> {"ReportAck"} \cup Closing
      [] stage = "RespondingToCq"         -> {"SignalReport", "CqResponse"}
      [] stage = "SendingReport"          -> {"ReportAck"} \cup Closing
      [] stage = "WaitingForConfirmation" -> Closing
      [] OTHER                            -> {}

SenderIsBusy(s) ==
    \E id \in QsoIds :
        /\ qsos[id].partner = s
        /\ \/ Active(qsos[id])
           \/ qsos[id].stage = "Completed" /\ qsos[id].inStage <= ReworkGrace

\* Mutant: a CQ takes an answer from a station that is being worked.
IsRelevantToEveryCq(q, f) ==
    /\ Active(q)
    /\ f.kind \in Expected(q.stage) => f.from = q.partner

IsRelevant(q, f) ==
    /\ Active(q)
    /\ IF q.stage = "CallingCq" /\ f.kind \in {"CqResponse", "SignalReport"}
       THEN ~SenderIsBusy(f.from)
       ELSE f.kind \in Expected(q.stage) => f.from = q.partner

FindQsos(f, near) ==
    LET found == {id \in near : IsRelevant(qsos[id], f)}
        cqs   == {id \in found : qsos[id].stage = "CallingCq"}
    IN  found \ {id \in cqs : \E first \in cqs : first < id}

ProcessMessage(f, near) ==
    /\ LoopIsFree
    /\ \/ heard[f.from].copies = 0
       \/ heard[f.from].frame = f /\ heard[f.from].copies < MaxCopies
    /\ FindQsos(f, near) # {}
    /\ rx' = [frame |-> f, ids |-> FindQsos(f, near)]
    /\ heard' = [heard EXCEPT ![f.from] =
                    [frame  |-> IF @.copies + 1 < MaxCopies THEN f ELSE NoFrame,
                     copies |-> @.copies + 1]]
    /\ UNCHANGED <<qsos, born, mapped, muted, watchdog, doomed, scanned, logged, failed>>

\* The grid in metadata: from any CqResponse, replaced on completion by the
\* grid the completed state carries.
LatchedGrid(q, f, new) ==
    CASE new.stage = "Completed" /\ q.stage # "Completed" /\ new.grid # NoStation -> new.grid
      [] f.kind = "CqResponse" /\ f.grid -> f.from
      [] OTHER -> q.logGrid

\* process_message_for_qso, on the QSO it finds in the map.
Applied(q, f) ==
    LET old     == Proto(q)
        new     == Transition(old, f, q.manual)
        regress == IsManualRegression(old, new, f, q.manual)
        reply   == IF new # old \/ regress THEN Reply(old, f) ELSE Nothing
        resent  == regress /\ reply # Nothing
        next    == [q EXCEPT
                      !.stage = new.stage, !.partner = new.partner, !.theirs = new.theirs,
                      !.ours = new.ours, !.grid = new.grid,
                      !.logGrid = LatchedGrid(q, f, new),
                      !.inStage = IF new.stage = old.stage THEN @ ELSE 0,
                      !.progressed = CASE regress -> FALSE
                                       [] new # old /\ q.manual /\ ~regress -> TRUE
                                       [] OTHER -> @,
                      !.calls = IF resent THEN OneMore(@) ELSE @,
                      !.sinceCall = IF resent \/ (new # old /\ q.manual) THEN 0 ELSE @]
    IN  IF reply = Nothing THEN next ELSE Emit(next, reply)

\* A QSO the watchdog removed meanwhile ends the decode with an error.
ProcessMessageForQso(id) ==
    /\ id \in rx.ids
    /\ IF qsos[id].stage = "Absent"
       THEN /\ rx' = Idle
            /\ UNCHANGED <<qsos, logged>>
       ELSE /\ rx' = IF rx.ids = {id} THEN Idle ELSE [rx EXCEPT !.ids = @ \ {id}]
            /\ qsos' = [qsos EXCEPT ![id] = Applied(@, rx.frame)]
            /\ logged' = IF qsos'[id].stage = "Completed" /\ qsos[id].stage # "Completed"
                         THEN [logged EXCEPT ![id] = @ + 1] ELSE logged
    /\ scanned' = FALSE
    /\ UNCHANGED <<born, mapped, heard, muted, watchdog, doomed, failed>>

(***************************************************************************)
(* The watchdog task.                                                      *)
(***************************************************************************)
CallLimit(q) == IF q.manual THEN MaxCalls ELSE AUTO_RESEND_MAX_CALLS

IsRearmed(q) ==
    /\ KeepCallFrame(q, q.manual) # Nothing
    /\ q.calls < CallLimit(q)
    /\ q.sinceCall >= 1
    /\ ~muted

Rearmed(q) ==
    Emit([q EXCEPT !.calls = OneMore(@), !.sinceCall = 0, !.sinceAttempt = 0],
         KeepCallFrame(q, q.manual))

RearmManualCalls ==
    /\ watchdog = "idle" /\ doomed = {}
    /\ watchdog' = "rearmed"
    /\ qsos' = [id \in QsoIds |-> IF IsRearmed(qsos[id]) THEN Rearmed(qsos[id]) ELSE qsos[id]]
    /\ UNCHANGED <<born, mapped, rx, heard, muted, doomed, scanned, logged, failed>>

\* The manual keep-calling watchdog covers a QSO ahead of its RR73.
KeepCalling(q) == q.manual /\ q.stage \in ActiveStages \ {"WaitingForConfirmation"}

IsRepetitive(q) == Active(q) /\ q.inStage > RepeatLimit

CallCapHit(q) ==
    /\ q.stage \in {"CallingCq", "RespondingToCq"}
    /\ q.calls >= MaxCalls
    /\ q.sinceAttempt > Retention

\* Mutant: only the call cap ends a manual call.
IsTimedOutByCapOnly(q) ==
    \/ IsRepetitive(q)
    \/ KeepCalling(q) /\ ~q.progressed /\ CallCapHit(q)
    \/ Active(q) /\ ~KeepCalling(q) /\ q.inStage > StateTimeout

IsTimedOut(q) ==
    \/ IsRepetitive(q)
    \/ KeepCalling(q) /\ ~q.progressed /\ (CallCapHit(q) \/ q.sinceFirst >= Watchdog)
    \/ Active(q) /\ ~KeepCalling(q) /\ q.inStage > StateTimeout

\* What is left of the map when id is retired, in whatever state it is by now.
Retired(map, id) == [map EXCEPT ![id] = Absent]

\* The scan: it consumes the reprieves and collects what timed out.  The
\* first QSO collected is retired before the lock is given up.
CheckTimeouts ==
    LET due   == {id \in QsoIds : IsTimedOut(qsos[id])}
        swept == [id \in QsoIds |->
                     IF KeepCalling(qsos[id]) /\ ~IsRepetitive(qsos[id])
                     THEN [qsos[id] EXCEPT !.progressed = FALSE]
                     ELSE qsos[id]]
    IN  /\ watchdog = "rearmed"
        /\ watchdog' = "idle"
        /\ scanned' = TRUE
        /\ \/ /\ due = {}
              /\ qsos' = swept
              /\ UNCHANGED <<mapped, doomed, failed>>
           \/ \E first \in due :
                 /\ qsos' = Retired(swept, first)
                 /\ mapped' = Unmapped(first)
                 /\ failed' = failed \cup {first}
                 /\ doomed' = due \ {first}
        /\ UNCHANGED <<born, rx, heard, muted, logged>>

\* The write lock is taken again for each of the others.
RetireTimedOut(id) ==
    /\ id \in doomed
    /\ doomed' = doomed \ {id}
    /\ qsos' = Retired(qsos, id)
    /\ mapped' = Unmapped(id)
    /\ failed' = IF qsos[id].stage = "Absent" THEN failed ELSE failed \cup {id}
    /\ UNCHANGED <<born, rx, heard, muted, watchdog, scanned, logged>>

(***************************************************************************)
(* The environment: the transmit policy, and time.  A slot is three        *)
(* watchdog periods long and its frames are decoded together, so a scan    *)
(* runs after them before the next slot begins.                            *)
(***************************************************************************)
SetMuted ==
    /\ muted' = ~muted
    /\ UNCHANGED <<qsos, born, mapped, rx, heard, watchdog, doomed, scanned, logged, failed>>

Tick ==
    /\ LoopIsFree /\ scanned /\ doomed = {}
    /\ scanned' = FALSE
    /\ heard' = [s \in Stations |-> [frame |-> NoFrame, copies |-> 0]]
    /\ qsos' = [id \in QsoIds |->
                   IF qsos[id].stage = "Absent" THEN Absent
                   ELSE [qsos[id] EXCEPT !.inStage = Older(@, AgeCap),
                                         !.sinceFirst = Older(@, Watchdog),
                                         !.sinceCall = Older(@, 1),
                                         !.sinceAttempt = Older(@, Retention + 1)]]
    /\ UNCHANGED <<born, mapped, rx, muted, watchdog, doomed, logged, failed>>

Command ==
    \/ "start_cq" \in Operations /\ StartCq(FALSE)
    \/ "start_cq_manual" \in Operations /\ StartCq(TRUE)
    \/ "respond_to_cq" \in Operations /\ \E s \in Stations : RespondToCq(s, FALSE)
    \/ "respond_to_cq_manual" \in Operations /\ \E s \in Stations : RespondToCq(s, TRUE)
    \/ "respond_to_caller" \in Operations
       /\ \E s \in Stations, step \in Steps, ours, theirs \in Reports :
              RespondToCaller(s, step, ours, theirs)
    \/ "resend_last_tx" \in Operations /\ \E id \in QsoIds : ResendLastTx(id)
    \/ "cancel_qso" \in Operations /\ \E id \in QsoIds : CancelQso(id)

Decode ==
    \/ \E f \in Frames, near \in SUBSET QsoIds : ProcessMessage(f, near)
    \/ \E id \in QsoIds : ProcessMessageForQso(id)

WatchdogTask ==
    \/ RearmManualCalls
    \/ CheckTimeouts
    \/ \E id \in QsoIds : RetireTimedOut(id)

Next ==
    \/ Command
    \/ Decode
    \/ WatchdogTask
    \/ "cleanup" \in Operations /\ \E id \in QsoIds : CleanupCompleted(id)
    \/ "mute" \in Operations /\ SetMuted
    \/ Tick

Spec == Init /\ [][Next]_vars

(***************************************************************************)
(* Both tasks keep running: the watchdog is an interval timer, and the     *)
(* loop finishes the decode it is applying.  Time passes.                  *)
(***************************************************************************)
Fairness ==
    /\ WF_vars(WatchdogTask)
    /\ WF_vars(\E id \in QsoIds : ProcessMessageForQso(id))
    /\ WF_vars(Tick)

FairSpec == Spec /\ Fairness

(***************************************************************************)
(* Properties.                                                             *)
(***************************************************************************)
\* Every variable keeps its type.
TypeOK ==
    /\ qsos \in [QsoIds -> Qso]
    /\ born \in 0..MaxQsos
    /\ mapped \in [Stations -> SUBSET QsoIds]
    /\ rx.frame \in Frames \cup {NoFrame} /\ rx.ids \subseteq QsoIds
    /\ \A s \in Stations : /\ heard[s].frame \in Frames \cup {NoFrame}
                           /\ heard[s].copies \in 0..MaxCopies
    /\ watchdog \in {"idle", "rearmed"}
    /\ doomed \subseteq QsoIds /\ failed \subseteq QsoIds
    /\ {muted, scanned} \subseteq BOOLEAN
    /\ \A id \in QsoIds : logged[id] \in Nat

\* In either role, one station is worked in at most one QSO at a time:
\* opening, superseding, re-calls and answers to several open CQs, with the
\* watchdog running in between, never leave two.
OnePerStationAndRole ==
    \A i, j \in QsoIds :
        /\ Active(qsos[i]) /\ Active(qsos[j])
        /\ qsos[i].partner = qsos[j].partner /\ qsos[i].partner # NoStation
        /\ qsos[i].cqer = qsos[j].cqer
        => i = j

\* A contact reaches the log once.  No decode, copy of a decode or command
\* completes a QSO a second time, and a closing step for a station worked as
\* a caller within the rework grace repeats that QSO's frame: it never opens
\* a second QSO that would be logged as well.
LoggedOnce ==
    [][\A id \in QsoIds :
          logged'[id] > logged[id] =>
              /\ logged[id] = 0
              /\ qsos[id].stage = "Absent" =>
                     ~\E other \in QsoIds :
                         /\ qsos[other].partner = qsos'[id].partner
                         /\ qsos[other].stage = "Completed"
                         /\ qsos[other].manual /\ ~qsos[other].cqer
                         /\ qsos[other].inStage <= ReworkGrace]_vars

\* While reports are being exchanged, the report held for the log is the one
\* that went out last: no retry, copy of their report, regression or step of
\* the operator changes the one without the other.
ReportIsStable ==
    \A id \in QsoIds :
        qsos[id].stage \in {"SendingReport", "WaitingForReport"}
            => qsos[id].aired = qsos[id].ours

\* The second copy of a transmission moves an exchange that the first one has
\* already moved: the fast path and the standard decode both deliver it.
SecondCopyCounts ==
    \E id \in rx.ids \ rx'.ids :
        /\ heard[rx.frame.from].copies > 1
        /\ qsos'[id].stage # qsos[id].stage

\* The operator moves an exchange on with respond_to_caller.
OperatorSteps ==
    /\ LoopIsFree
    /\ \E id \in QsoIds : /\ Active(qsos[id]) /\ Active(qsos'[id])
                          /\ qsos'[id].stage # qsos[id].stage

\* Unless second copies of their frames, or steps of the operator, keep moving
\* it for ever, an exchange ends: whatever the other station repeats, restarts
\* or leaves out, the state timeouts, the call cap and the watchdogs bound it.
\* Without the premise it is not so: a frame and its second copy can take a QSO
\* back and forth in every slot, and each change of stage restarts its timeout.
EveryQsoEnds ==
    <>[][~SecondCopyCounts /\ ~OperatorSteps]_vars
        => \A id \in QsoIds : Active(qsos[id]) ~> ~Active(qsos[id])

\* The second copy of a transmission moves no exchange.
SecondCopyIsIgnored == [][~SecondCopyCounts]_vars

\* A completed contact is never reported as failed afterwards.
CompletedNeverFails == \A id \in QsoIds : logged[id] > 0 => id \notin failed

\* One station is worked in at most one QSO at a time, in either role.
OnePerStation ==
    \A i, j \in QsoIds :
        /\ Active(qsos[i]) /\ Active(qsos[j])
        /\ qsos[i].partner = qsos[j].partner /\ qsos[i].partner # NoStation
        => i = j

\* The grid in the log is the partner's.
LoggedGridIsPartners ==
    \A id \in QsoIds :
        qsos[id].stage = "Completed" => qsos[id].logGrid \in {NoStation, qsos[id].partner}

=============================================================================
