------------------------------ MODULE QsoLadder ------------------------------
(***************************************************************************)
(* The FT8 exchange as pure operators: what a frame from the other station *)
(* does to one QSO's protocol state, which frame we answer with, and which *)
(* frame the keep-call loop repeats.                                       *)
(*                                                                         *)
(*   Caller (we answer their CQ)        CQer (they answer our CQ)          *)
(*     RespondingToCq                     CallingCq                        *)
(*       | their report                     | their grid or report         *)
(*     SendingReport                      WaitingForReport                 *)
(*       | their R-report                   | their R-report               *)
(*     WaitingForConfirmation  <------------+                              *)
(*       | their RR73 or 73                                                *)
(*     Completed                                                           *)
(*                                                                         *)
(* A manual QSO may also be sent back down the ladder.  Every frame here   *)
(* is addressed to us: a frame addressed to another station is rejected    *)
(* before it changes anything.  A decode always carries an SNR, and the    *)
(* report we give is that SNR.                                             *)
(***************************************************************************)
EXTENDS Naturals

CONSTANTS
    Stations,      \* the callsigns of the other stations
    Reports,       \* signal reports, ours and theirs
    NoStation,     \* no callsign, no grid
    NoReport,      \* a report that was not exchanged
    DefaultReport  \* the report written where none is known (-15)

ASSUME LadderAssumption ==
    /\ NoStation \notin Stations
    /\ NoReport \notin Reports
    /\ DefaultReport \in Reports

(***************************************************************************)
(* Frames.  A grid square is represented by the station it belongs to.     *)
(***************************************************************************)
FrameKinds ==
    {"CqResponse", "SignalReport", "ReportAck", "FinalConfirmation", "SeventyThree"}

Reporting == {"SignalReport", "ReportAck"}
Closing   == {"FinalConfirmation", "SeventyThree"}

Frames ==
    {f \in [kind: FrameKinds, from: Stations, report: Reports \cup {NoReport},
            snr: Reports, grid: BOOLEAN] :
        /\ (f.report # NoReport) <=> (f.kind \in Reporting)
        /\ f.grid => (f.kind = "CqResponse")}

\* What we transmit: the kind of frame and the report in it.
Sends(kind)              == [kind |-> kind, report |-> NoReport]
SendsReport(kind, report) == [kind |-> kind, report |-> report]
Nothing                  == Sends("none")

OurFrames ==
    {[kind |-> k, report |-> NoReport] : k \in {"none", "Cq", "CqResponse"} \cup Closing}
    \cup [kind: Reporting, report: Reports]

(***************************************************************************)
(* One QSO's protocol state: its stage and the fields the stage carries.   *)
(* A stage without a field leaves it at its "no" value.                    *)
(***************************************************************************)
ActiveStages == {"CallingCq", "RespondingToCq", "WaitingForReport",
                 "SendingReport", "WaitingForConfirmation"}

Rung(stage, partner, theirs, ours, grid) ==
    [stage |-> stage, partner |-> partner, theirs |-> theirs, ours |-> ours,
     grid |-> grid]

GridIn(f) == IF f.grid THEN f.from ELSE NoStation

(***************************************************************************)
(* determine_state_transition.  CallingCq takes whoever answers; after     *)
(* that only frames from the latched partner count.                        *)
(***************************************************************************)
FromCallingCq(s, f) ==
    IF f.kind \in {"CqResponse", "SignalReport"}
    THEN Rung("WaitingForReport", f.from, NoReport, f.snr, GridIn(f))
    ELSE s

\* An RR73 or 73 before any report was rogered: the report it closes with is
\* measured on the closing frame, theirs is the default.
SkipToClose(s, f) == Rung("Completed", s.partner, DefaultReport, f.snr, NoStation)

FromWaitingForReport(s, f) ==
    CASE f.kind \in Closing -> SkipToClose(s, f)
      [] f.kind = "ReportAck" ->
             Rung("WaitingForConfirmation", s.partner, f.report, f.snr, s.grid)
      [] OTHER -> s

FromRespondingToCq(s, f) ==
    CASE f.kind = "CqResponse" ->
             Rung("SendingReport", s.partner, NoReport, f.snr, NoStation)
      [] f.kind = "SignalReport" ->
             Rung("SendingReport", s.partner, f.report, f.snr, NoStation)
      [] f.kind = "ReportAck" ->
             Rung("WaitingForConfirmation", s.partner, f.report, f.snr, NoStation)
      [] f.kind \in Closing -> SkipToClose(s, f)

KnownReport(s) == IF s.theirs = NoReport THEN DefaultReport ELSE s.theirs

\* Mutant: our report is measured again on every copy of theirs.
TakeReportAndRemeasure(s, f) == [s EXCEPT !.theirs = f.report, !.ours = f.snr]

\* Their report again, or for the first time after we sent ours: ours stays.
TakeReport(s, f) == [s EXCEPT !.theirs = f.report]

\* The report inside their R-report is not taken.
FromSendingReport(s, f) ==
    CASE f.kind = "ReportAck" ->
             Rung("WaitingForConfirmation", s.partner, KnownReport(s), s.ours, NoStation)
      [] f.kind \in Closing ->
             Rung("Completed", s.partner, KnownReport(s), s.ours, NoStation)
      [] f.kind = "SignalReport" -> TakeReport(s, f)
      [] OTHER -> s

\* A manual QSO goes back to where the other station is.
RegressToReport(s, f) == Rung("SendingReport", s.partner, f.report, f.snr, NoStation)
RegressToGrid(s)      == Rung("RespondingToCq", s.partner, NoReport, NoReport, NoStation)

FromWaitingForConfirmation(s, f, manual) ==
    CASE f.kind \in Closing -> [s EXCEPT !.stage = "Completed"]
      [] f.kind = "SignalReport" /\ manual -> RegressToReport(s, f)
      [] f.kind = "CqResponse" /\ manual -> RegressToGrid(s)
      [] OTHER -> s

Transition(s, f, manual) ==
    CASE s.stage = "CallingCq" -> FromCallingCq(s, f)
      [] s.stage \in ActiveStages \ {"CallingCq"} /\ f.from # s.partner -> s
      [] s.stage = "WaitingForReport" /\ f.from = s.partner -> FromWaitingForReport(s, f)
      [] s.stage = "RespondingToCq" /\ f.from = s.partner -> FromRespondingToCq(s, f)
      [] s.stage = "SendingReport" /\ f.from = s.partner -> FromSendingReport(s, f)
      [] s.stage = "WaitingForConfirmation" /\ f.from = s.partner ->
             FromWaitingForConfirmation(s, f, manual)
      [] OTHER -> s

(***************************************************************************)
(* generate_response: the answer to f, from the state BEFORE the           *)
(* transition.                                                             *)
(***************************************************************************)
Reply(s, f) ==
    CASE s.stage = "CallingCq" /\ f.kind \in {"CqResponse", "SignalReport"} ->
             SendsReport("SignalReport", f.snr)
      [] s.stage = "RespondingToCq" /\ f.kind = "CqResponse" ->
             SendsReport("SignalReport", f.snr)
      [] s.stage \in {"RespondingToCq", "WaitingForConfirmation"} /\ f.kind = "SignalReport" ->
             SendsReport("ReportAck", f.snr)
      [] s.stage \in {"RespondingToCq", "WaitingForReport", "SendingReport"}
             /\ f.kind = "ReportAck" -> Sends("FinalConfirmation")
      [] s.stage \in ActiveStages \ {"CallingCq"} /\ f.kind = "FinalConfirmation" ->
             Sends("SeventyThree")
      [] s.stage = "WaitingForReport" /\ f.kind = "SeventyThree" -> Sends("SeventyThree")
      [] s.stage = "WaitingForConfirmation" /\ f.kind = "CqResponse" -> Sends("CqResponse")
      [] OTHER -> Nothing

\* The responder's ladder; 0 stands for a stage that is not on it.
LadderRank(s) ==
    CASE s.stage = "RespondingToCq"         -> 1
      [] s.stage = "SendingReport"          -> 2
      [] s.stage = "WaitingForConfirmation" -> 3
      [] s.stage = "Completed"              -> 4
      [] OTHER                              -> 0

\* A frame that says the other station is behind us on the ladder.
IsManualRegression(old, new, f, manual) ==
    /\ manual
    /\ \/ LadderRank(new) < LadderRank(old)
       \/ /\ old.stage = "SendingReport" /\ old.theirs # NoReport
          /\ new.stage = "SendingReport"
          /\ f.kind = "SignalReport"

\* Mutant: the report is repeated before there is one to give.
KeepCallFrameTooSoon(s, manual) ==
    CASE s.stage \in {"RespondingToCq", "SendingReport"} -> SendsReport("SignalReport", s.ours)
      [] OTHER -> Nothing

\* The frame rearm_manual_calls_at repeats while the other station is silent.
KeepCallFrame(s, manual) ==
    CASE s.stage = "CallingCq" /\ manual -> Sends("Cq")
      [] s.stage = "WaitingForReport" /\ manual -> SendsReport("SignalReport", s.ours)
      [] s.stage = "RespondingToCq" -> Sends("CqResponse")
      [] s.stage = "SendingReport" /\ s.theirs = NoReport ->
             SendsReport("SignalReport", s.ours)
      [] s.stage = "SendingReport" /\ s.theirs # NoReport ->
             SendsReport("ReportAck", s.ours)
      [] OTHER -> Nothing

=============================================================================
