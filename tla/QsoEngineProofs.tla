-------------------------- MODULE QsoEngineProofs --------------------------
(***************************************************************************)
(* Proofs about the QSO engine, for every set of stations and reports,     *)
(* every number of QSOs and copies of a frame, and every call cap and      *)
(* timeout: one QSO per station and role, one log entry per contact, and   *)
(* the report in the log is the one that went out.                         *)
(***************************************************************************)
EXTENDS QsoEngine, TLAPS

\* The state but for the QSO map is well typed.
RestOK ==
    /\ born \in 0..MaxQsos
    /\ mapped \in [Stations -> SUBSET QsoIds]
    /\ rx \in [frame : Frames \cup {NoFrame}, ids : SUBSET QsoIds]
    /\ heard \in [Stations -> [frame : Frames \cup {NoFrame}, copies : 0..MaxCopies]]
    /\ watchdog \in {"idle", "rearmed"}
    /\ doomed \subseteq QsoIds /\ failed \subseteq QsoIds
    /\ muted \in BOOLEAN /\ scanned \in BOOLEAN
    /\ logged \in [QsoIds -> Nat]

Exchanging == {"SendingReport", "WaitingForReport"}

\* A QSO that exchanges reports has one to give, and it is the one that went
\* out last; an open CQ is ours and has no partner yet.
Sound(q) ==
    /\ q \in Qso
    /\ q.stage \in Exchanging => q.ours \in Reports /\ q.aired = q.ours
    /\ q.stage = "CallingCq" => q.cqer /\ q.partner = NoStation

QsosSound == qsos \in [QsoIds -> Qso] /\ \A id \in QsoIds : Sound(qsos[id])

\* The index finds every exchange in which we called, until it has failed.
IsIndexed ==
    \A id \in QsoIds :
        ~qsos[id].cqer /\ qsos[id].stage \in ActiveStages \cup {"Completed"} =>
            qsos[id].partner \in Stations /\ id \in mapped[qsos[id].partner]

Answering == {"CqResponse", "SignalReport"}

\* While an answer to an open CQ is being applied its sender is in no exchange,
\* and no second open CQ takes it.
AnswerIsFree ==
    /\ rx.ids # {} => rx.frame \in Frames
    /\ rx.frame.kind \in Answering =>
           \A id \in rx.ids :
               qsos[id].stage = "CallingCq" =>
                   /\ \A j \in QsoIds : Active(qsos[j]) => qsos[j].partner # rx.frame.from
                   /\ \A j \in rx.ids : qsos[j].stage = "CallingCq" => j = id

\* An id not handed out yet has no QSO and no log entry, and a QSO that was
\* logged is not in progress.
LogIsOver ==
    \A id \in QsoIds :
        /\ id > born => qsos[id].stage = "Absent" /\ logged[id] = 0
        /\ logged[id] > 0 => ~Active(qsos[id])

EngineInv ==
    /\ RestOK
    /\ QsosSound
    /\ IsIndexed
    /\ OnePerStationAndRole
    /\ AnswerIsFree
    /\ LogIsOver

-----------------------------------------------------------------------------
(***************************************************************************)
(* One QSO.                                                                *)
(***************************************************************************)

\* The larger of two numbers is one of them, and no smaller than the other.
LEMMA LargerOfTwo ==
    ASSUME NEW a \in Nat, NEW b \in Nat
    PROVE  Max({a, b}) \in {a, b} /\ Max({a, b}) >= a /\ Max({a, b}) >= b
<1>1. \E x \in {a, b} : \A y \in {a, b} : x >= y
    OBVIOUS
<1> QED BY <1>1 DEF Max

\* The smaller of two numbers is one of them, and no larger than the other.
LEMMA SmallerOfTwo ==
    ASSUME NEW a \in Nat, NEW b \in Nat
    PROVE  Min({a, b}) \in {a, b} /\ Min({a, b}) <= a /\ Min({a, b}) <= b
<1>1. \E x \in {a, b} : \A y \in {a, b} : x =< y
    OBVIOUS
<1> QED BY <1>1 DEF Min

\* Ages and call counts stay within their caps.
LEMMA Counting ==
    /\ AgeCap \in Nat /\ MaxQsos \in Nat /\ MaxCopies \in Nat
    /\ CallCap \in Nat /\ CallCap >= 1
    /\ \A age, limit \in Ages : Older(age, limit) \in Ages
    /\ {0, 1, Watchdog, Retention + 1} \subseteq Ages
    /\ \A n \in 0..CallCap : OneMore(n) \in 0..CallCap
<1>1. /\ AgeCap \in Nat /\ MaxQsos \in Nat /\ MaxCopies \in Nat
      /\ MaxCalls \in Nat /\ AUTO_RESEND_MAX_CALLS \in Nat
    BY EngineAssumption DEF AUTO_RESEND_MAX_CALLS
<1>2. CallCap \in Nat /\ CallCap >= 1
    BY <1>1, LargerOfTwo, EngineAssumption DEF CallCap, AUTO_RESEND_MAX_CALLS
<1>3. ASSUME NEW age \in Ages, NEW limit \in Ages PROVE Older(age, limit) \in Ages
    <2>1. age + 1 \in Nat /\ limit \in Nat
        BY <1>1 DEF Ages
    <2> QED BY <1>1, <2>1, SmallerOfTwo DEF Older, Ages
<1>4. {0, 1, Watchdog, Retention + 1} \subseteq Ages
    <2>1. Watchdog \in Nat /\ Retention \in Nat
        BY EngineAssumption
    <2>2. Watchdog < AgeCap /\ Retention < AgeCap /\ 1 < AgeCap
        BY EngineAssumption
    <2> QED BY <1>1, <2>1, <2>2 DEF Ages
<1>5. ASSUME NEW n \in 0..CallCap PROVE OneMore(n) \in 0..CallCap
    <2>1. n + 1 \in Nat
        BY <1>2
    <2> QED BY <1>2, <2>1, SmallerOfTwo DEF OneMore
<1> QED BY <1>1, <1>2, <1>3, <1>4, <1>5

\* A protocol state: the part of a QSO that the ladder works on.
ProtoState ==
    [stage : ActiveStages \cup {"Absent", "Completed", "Failed"},
     partner : Stations \cup {NoStation}, theirs : Reports \cup {NoReport},
     ours : Reports \cup {NoReport}, grid : Stations \cup {NoStation}]

\* The fields of a frame.
LEMMA FrameFields ==
    ASSUME NEW f \in Frames
    PROVE  /\ f.kind \in FrameKinds /\ f.from \in Stations /\ f.snr \in Reports
           /\ f.report \in Reports \cup {NoReport} /\ f.grid \in BOOLEAN
           /\ f.kind \in Reporting => f.report \in Reports
    BY DEF Frames

\* Our frames, by construction.
LEMMA OurFramesAre ==
    /\ Nothing \in OurFrames
    /\ \A k \in {"none", "Cq", "CqResponse"} \cup Closing : Sends(k) \in OurFrames
    /\ \A k \in Reporting, r \in Reports : SendsReport(k, r) \in OurFrames
    /\ \A frame \in OurFrames :
           frame.report # NoReport => frame.kind \in Reporting /\ frame.report \in Reports
    BY LadderAssumption DEF OurFrames, Sends, SendsReport, Nothing, Reporting, Closing

\* Emitting a frame changes what was sent last, and nothing else.
LEMMA EmitKeeps ==
    ASSUME NEW q \in Qso, NEW frame \in OurFrames
    PROVE  /\ Emit(q, frame) \in Qso
           /\ Emit(q, frame).stage = q.stage /\ Emit(q, frame).partner = q.partner
           /\ Emit(q, frame).cqer = q.cqer /\ Emit(q, frame).manual = q.manual
           /\ Emit(q, frame).ours = q.ours /\ Emit(q, frame).inStage = q.inStage
           /\ Emit(q, frame).aired =
                  IF frame.report = NoReport THEN q.aired ELSE frame.report
<1>1. frame.report # NoReport => frame.report \in Reports
    BY OurFramesAre
<1>2. CASE frame.report = NoReport
    <2>1. Emit(q, frame) = [q EXCEPT !.last = frame]
        BY <1>2 DEF Emit, Qso
    <2> QED BY <2>1, <1>2 DEF Qso
<1>3. CASE frame.report # NoReport
    <2>1. Emit(q, frame) = [q EXCEPT !.last = frame, !.aired = frame.report]
        BY <1>3 DEF Emit, Qso
    <2>2. Emit(q, frame) \in Qso
        BY <2>1, <1>1, <1>3 DEF Qso
    <2> QED BY <2>1, <2>2, <1>3 DEF Qso
<1> QED BY <1>2, <1>3

\* What a frame does to the protocol state: only an open CQ takes a partner,
\* from an answer, and nothing reopens a CQ or a QSO that is over.
LEMMA TransitionKeeps ==
    ASSUME NEW s \in ProtoState, NEW f \in Frames, NEW manual \in BOOLEAN
    PROVE  LET t == Transition(s, f, manual)
           IN  /\ t \in ProtoState
               /\ s.stage \notin ActiveStages => t = s
               /\ s.stage \in ActiveStages => t.stage \in ActiveStages \cup {"Completed"}
               /\ s.stage # "CallingCq" => t.partner = s.partner /\ t.stage # "CallingCq"
               /\ s.stage = "CallingCq" =>
                      \/ t = s
                      \/ /\ f.kind \in {"CqResponse", "SignalReport"}
                         /\ t.stage = "WaitingForReport" /\ t.partner = f.from
<1> DEFINE t == Transition(s, f, manual)
<1>f. /\ f.kind \in FrameKinds /\ f.from \in Stations /\ f.snr \in Reports
      /\ f.report \in Reports \cup {NoReport} /\ f.grid \in BOOLEAN
      /\ f.kind \in Reporting => f.report \in Reports
    BY FrameFields
<1>s. /\ s.stage \in ActiveStages \cup {"Absent", "Completed", "Failed"}
      /\ s.partner \in Stations \cup {NoStation} /\ s.theirs \in Reports \cup {NoReport}
      /\ s.ours \in Reports \cup {NoReport} /\ s.grid \in Stations \cup {NoStation}
    BY DEF ProtoState
<1>1. CASE s.stage = "CallingCq"
    <2>1. t = FromCallingCq(s, f)
        BY <1>1 DEF Transition
    <2>2. GridIn(f) \in Stations \cup {NoStation}
        BY <1>f DEF GridIn
    <2>3. CASE f.kind \in {"CqResponse", "SignalReport"}
        <3>1. t = Rung("WaitingForReport", f.from, NoReport, f.snr, GridIn(f))
            BY <2>1, <2>3 DEF FromCallingCq
        <3>2. t \in ProtoState
            BY <3>1, <2>2, <1>f DEF ActiveStages, ProtoState, Rung
        <3> QED BY <3>1, <3>2, <2>3, <1>1 DEF Rung, ActiveStages
    <2>4. CASE f.kind \notin {"CqResponse", "SignalReport"}
        BY <2>1, <2>4, <1>1 DEF FromCallingCq, ActiveStages
    <2> QED BY <2>3, <2>4
<1>2. CASE s.stage \in ActiveStages \ {"CallingCq"} /\ f.from # s.partner
    <2>1. t = s
        BY <1>2 DEF Transition
    <2> QED BY <2>1, <1>2
<1>3. CASE s.stage = "WaitingForReport" /\ f.from = s.partner
    <2>1. t = FromWaitingForReport(s, f)
        BY <1>3 DEF Transition, ActiveStages
    <2>2. \/ t = s
          \/ t = Rung("Completed", s.partner, DefaultReport, f.snr, NoStation)
          \/ t = Rung("WaitingForConfirmation", s.partner, f.report, f.snr, s.grid)
        BY <2>1 DEF FromWaitingForReport, SkipToClose
    <2>3. t \in ProtoState
        BY <2>2, <1>f, <1>s, LadderAssumption DEF ActiveStages, ProtoState, Rung
    <2> QED BY <2>2, <2>3, <1>3 DEF Rung, ActiveStages
<1>4. CASE s.stage = "RespondingToCq" /\ f.from = s.partner
    <2>1. t = FromRespondingToCq(s, f)
        BY <1>4 DEF Transition, ActiveStages
    <2>2. \/ t = Rung("SendingReport", s.partner, NoReport, f.snr, NoStation)
          \/ t = Rung("SendingReport", s.partner, f.report, f.snr, NoStation)
          \/ t = Rung("WaitingForConfirmation", s.partner, f.report, f.snr, NoStation)
          \/ t = Rung("Completed", s.partner, DefaultReport, f.snr, NoStation)
        BY <2>1, <1>f DEF FromRespondingToCq, SkipToClose, FrameKinds, Closing
    <2>3. t \in ProtoState
        BY <2>2, <1>f, <1>s, LadderAssumption DEF ActiveStages, ProtoState, Rung
    <2> QED BY <2>2, <2>3, <1>4 DEF Rung, ActiveStages
<1>5. CASE s.stage = "SendingReport" /\ f.from = s.partner
    <2>1. t = FromSendingReport(s, f)
        BY <1>5 DEF Transition, ActiveStages
    <2>2. KnownReport(s) \in Reports
        BY <1>s, LadderAssumption DEF KnownReport
    <2>3. \/ t = s
          \/ t = Rung("WaitingForConfirmation", s.partner, KnownReport(s), s.ours, NoStation)
          \/ t = Rung("Completed", s.partner, KnownReport(s), s.ours, NoStation)
          \/ t = [s EXCEPT !.theirs = f.report]
        BY <2>1 DEF FromSendingReport, TakeReport
    <2>4. [s EXCEPT !.theirs = f.report] \in ProtoState
        BY <1>f DEF ProtoState
    <2>5. t \in ProtoState
        BY <2>2, <2>3, <2>4, <1>s DEF ActiveStages, ProtoState, Rung
    <2> QED BY <2>3, <2>5, <1>5 DEF Rung, ActiveStages, ProtoState
<1>6. CASE s.stage = "WaitingForConfirmation" /\ f.from = s.partner
    <2>1. t = FromWaitingForConfirmation(s, f, manual)
        BY <1>6 DEF Transition, ActiveStages
    <2>2. \/ t = s
          \/ t = [s EXCEPT !.stage = "Completed"]
          \/ t = Rung("SendingReport", s.partner, f.report, f.snr, NoStation)
          \/ t = Rung("RespondingToCq", s.partner, NoReport, NoReport, NoStation)
        BY <2>1 DEF FromWaitingForConfirmation, RegressToReport, RegressToGrid
    <2>3. [s EXCEPT !.stage = "Completed"] \in ProtoState
        BY DEF ProtoState
    <2>4. t \in ProtoState
        BY <2>2, <2>3, <1>f, <1>s DEF ActiveStages, ProtoState, Rung
    <2> QED BY <2>2, <2>4, <1>6 DEF Rung, ActiveStages, ProtoState
<1>7. CASE s.stage \notin ActiveStages
    <2>1. t = s
        BY <1>7 DEF Transition, ActiveStages
    <2> QED BY <2>1, <1>7 DEF ActiveStages
<1> QED BY <1>1, <1>2, <1>3, <1>4, <1>5, <1>6, <1>7 DEF ActiveStages

\* The answer to a frame is a frame of ours.
LEMMA ReplyIsOurs ==
    ASSUME NEW s \in ProtoState, NEW f \in Frames
    PROVE  Reply(s, f) \in OurFrames
<1>1. f.snr \in Reports
    BY FrameFields
<1>2. \/ Reply(s, f) = SendsReport("SignalReport", f.snr)
      \/ Reply(s, f) = SendsReport("ReportAck", f.snr)
      \/ Reply(s, f) = Sends("FinalConfirmation")
      \/ Reply(s, f) = Sends("SeventyThree")
      \/ Reply(s, f) = Sends("CqResponse")
      \/ Reply(s, f) = Nothing
    BY DEF Reply
<1> QED BY <1>1, <1>2, OurFramesAre DEF Reporting, Closing

\* A frame that leaves us exchanging reports has either left our report as it
\* was, and its answer carries none, or has made it the report of its answer.
LEMMA ReportsAgree ==
    ASSUME NEW s \in ProtoState, NEW f \in Frames, NEW manual \in BOOLEAN,
           Transition(s, f, manual).stage \in Exchanging
    PROVE  LET t == Transition(s, f, manual)
           IN  \/ /\ s.stage \in Exchanging /\ t.ours = s.ours
                  /\ Reply(s, f).report = NoReport
               \/ /\ t # s /\ t.ours \in Reports
                  /\ Reply(s, f).report = t.ours
<1> DEFINE t == Transition(s, f, manual)
<1>f. f.kind \in FrameKinds /\ f.snr \in Reports
    BY FrameFields
<1>1. CASE s.stage \in Exchanging
    <2>1. Reply(s, f).report = NoReport
        BY <1>1 DEF Reply, Exchanging, Sends, Nothing
    <2>2. CASE s.stage = "SendingReport"
        <3>1. t = s \/ t = FromSendingReport(s, f)
            BY <2>2 DEF Transition, ActiveStages
        <3>2. t.ours = s.ours
            BY <3>1 DEF FromSendingReport, TakeReport, Rung, ProtoState
        <3> QED BY <3>2, <2>1, <1>1
    <2>3. CASE s.stage = "WaitingForReport"
        <3>1. t = s \/ t = FromWaitingForReport(s, f)
            BY <2>3 DEF Transition, ActiveStages
        <3>2. t = s
            BY <3>1 DEF FromWaitingForReport, SkipToClose, Rung, Exchanging
        <3> QED BY <3>2, <2>1, <1>1
    <2> QED BY <2>2, <2>3, <1>1 DEF Exchanging
<1>2. CASE s.stage = "CallingCq"
    <2>1. t = FromCallingCq(s, f)
        BY <1>2 DEF Transition
    <2>2. f.kind \in {"CqResponse", "SignalReport"} /\ t.ours = f.snr
        BY <2>1, <1>2 DEF FromCallingCq, Rung, Exchanging
    <2>3. Reply(s, f).report = f.snr
        BY <2>2, <1>2 DEF Reply, SendsReport
    <2> QED BY <2>2, <2>3, <1>2, <1>f DEF Exchanging
<1>3. CASE s.stage = "RespondingToCq"
    <2>1. t = s \/ t = FromRespondingToCq(s, f)
        BY <1>3 DEF Transition, ActiveStages
    <2>2. f.kind \in {"CqResponse", "SignalReport"} /\ t.ours = f.snr
        BY <2>1, <1>3, <1>f DEF FromRespondingToCq, SkipToClose, Rung, Exchanging, FrameKinds,
                                Closing
    <2>3. Reply(s, f).report = f.snr
        BY <2>2, <1>3 DEF Reply, SendsReport
    <2> QED BY <2>2, <2>3, <1>3, <1>f DEF Exchanging
<1>4. CASE s.stage = "WaitingForConfirmation"
    <2>1. t = s \/ t = FromWaitingForConfirmation(s, f, manual)
        BY <1>4 DEF Transition, ActiveStages
    <2>2. f.kind = "SignalReport" /\ t.ours = f.snr
        BY <2>1, <1>4, <1>f DEF FromWaitingForConfirmation, RegressToReport, RegressToGrid,
                                Rung, Exchanging, FrameKinds, Closing, ProtoState
    <2>3. Reply(s, f).report = f.snr
        BY <2>2, <1>4 DEF Reply, SendsReport
    <2> QED BY <2>2, <2>3, <1>4, <1>f DEF Exchanging
<1>5. CASE s.stage \notin ActiveStages
    <2>1. t = s
        BY <1>5, TransitionKeeps
    <2> QED BY <2>1, <1>5 DEF Exchanging, ActiveStages
<1> QED BY <1>1, <1>2, <1>3, <1>4, <1>5 DEF ActiveStages, Exchanging

\* A QSO with its protocol state and counters replaced.
Rewritten(q, s, logGrid, inStage, progressed, calls, sinceCall) ==
    [q EXCEPT !.stage = s.stage, !.partner = s.partner, !.theirs = s.theirs,
              !.ours = s.ours, !.grid = s.grid, !.logGrid = logGrid, !.inStage = inStage,
              !.progressed = progressed, !.calls = calls, !.sinceCall = sinceCall]

\* It is still a QSO.
LEMMA RewrittenQso ==
    ASSUME NEW q \in Qso, NEW s \in ProtoState, NEW logGrid \in Stations \cup {NoStation},
           NEW inStage \in Ages, NEW progressed \in BOOLEAN, NEW calls \in 0..CallCap,
           NEW sinceCall \in Ages
    PROVE  LET p == Rewritten(q, s, logGrid, inStage, progressed, calls, sinceCall)
           IN  /\ p \in Qso /\ p.stage = s.stage /\ p.partner = s.partner
               /\ p.ours = s.ours /\ p.cqer = q.cqer /\ p.manual = q.manual
               /\ p.aired = q.aired
<1> DEFINE p  == Rewritten(q, s, logGrid, inStage, progressed, calls, sinceCall)
           p1 == [q EXCEPT !.stage = s.stage, !.partner = s.partner, !.theirs = s.theirs]
           p2 == [p1 EXCEPT !.ours = s.ours, !.grid = s.grid]
           p3 == [p2 EXCEPT !.logGrid = logGrid, !.inStage = inStage]
           p4 == [p3 EXCEPT !.progressed = progressed]
           p5 == [p4 EXCEPT !.calls = calls, !.sinceCall = sinceCall]
<1>1. p = p5
    BY Zenon DEF Rewritten
<1>2. /\ s.stage \in ActiveStages \cup {"Absent", "Completed", "Failed"}
      /\ s.partner \in Stations \cup {NoStation} /\ s.theirs \in Reports \cup {NoReport}
      /\ s.ours \in Reports \cup {NoReport} /\ s.grid \in Stations \cup {NoStation}
    BY DEF ProtoState
<1>3. p1 \in Qso
    BY <1>2 DEF Qso
<1>4. /\ p1.stage = s.stage /\ p1.partner = s.partner
      /\ p1.cqer = q.cqer /\ p1.manual = q.manual /\ p1.aired = q.aired
    BY DEF Qso
<1> HIDE DEF p1
<1>5. p2 \in Qso
    BY <1>2, <1>3 DEF Qso
<1>6. /\ p2.stage = p1.stage /\ p2.partner = p1.partner /\ p2.ours = s.ours
      /\ p2.cqer = p1.cqer /\ p2.manual = p1.manual /\ p2.aired = p1.aired
    BY <1>3 DEF Qso
<1> HIDE DEF p2
<1>7. p3 \in Qso
    BY <1>5 DEF Qso
<1>8. /\ p3.stage = p2.stage /\ p3.partner = p2.partner /\ p3.ours = p2.ours
      /\ p3.cqer = p2.cqer /\ p3.manual = p2.manual /\ p3.aired = p2.aired
    BY <1>5 DEF Qso
<1> HIDE DEF p3
<1>9. p4 \in Qso
    BY <1>7 DEF Qso
<1>10. /\ p4.stage = p3.stage /\ p4.partner = p3.partner /\ p4.ours = p3.ours
      /\ p4.cqer = p3.cqer /\ p4.manual = p3.manual /\ p4.aired = p3.aired
    BY <1>7 DEF Qso
<1> HIDE DEF p4
<1>11. p5 \in Qso
    BY <1>9 DEF Qso
<1>12. /\ p5.stage = p4.stage /\ p5.partner = p4.partner /\ p5.ours = p4.ours
      /\ p5.cqer = p4.cqer /\ p5.manual = p4.manual /\ p5.aired = p4.aired
    BY <1>9 DEF Qso
<1> HIDE DEF p, p5
<1> QED BY <1>1, <1>4, <1>6, <1>8, <1>10, <1>11, <1>12 DEF p

\* process_message_for_qso on one QSO: it stays sound and keeps its role; only
\* an open CQ takes a partner, the sender of an answer; no QSO that is over
\* comes back.
LEMMA AppliedKeeps ==
    ASSUME NEW q, Sound(q), NEW f \in Frames
    PROVE  LET p == Applied(q, f)
           IN  /\ Sound(p)
               /\ p.cqer = q.cqer /\ p.manual = q.manual
               /\ q.stage \notin ActiveStages => p.stage = q.stage
               /\ q.stage \in ActiveStages => p.stage \in ActiveStages \cup {"Completed"}
               /\ q.stage # "CallingCq" => p.partner = q.partner /\ p.stage # "CallingCq"
               /\ q.stage = "CallingCq" =>
                      \/ p.stage = "CallingCq"
                      \/ /\ f.kind \in Answering
                         /\ p.stage = "WaitingForReport" /\ p.partner = f.from
<1> DEFINE old     == Proto(q)
           new     == Transition(old, f, q.manual)
           regress == IsManualRegression(old, new, f, q.manual)
           reply   == IF new # old \/ regress THEN Reply(old, f) ELSE Nothing
           resent  == regress /\ reply # Nothing
           grid    == LatchedGrid(q, f, new)
           inStage == IF new.stage = old.stage THEN q.inStage ELSE 0
           going   == CASE regress -> FALSE
                        [] new # old /\ q.manual /\ ~regress -> TRUE
                        [] OTHER -> q.progressed
           calls   == IF resent THEN OneMore(q.calls) ELSE q.calls
           since   == IF resent \/ (new # old /\ q.manual) THEN 0 ELSE q.sinceCall
           next    == Rewritten(q, new, grid, inStage, going, calls, since)
<1>q. q \in Qso
    BY DEF Sound
<1>1. old \in ProtoState /\ old.stage = q.stage /\ old.partner = q.partner /\ old.ours = q.ours
    BY <1>q DEF Proto, Rung, ProtoState, Qso
<1>m. q.manual \in BOOLEAN
    BY <1>q DEF Qso
<1>2. /\ new \in ProtoState
      /\ old.stage \notin ActiveStages => new = old
      /\ old.stage \in ActiveStages => new.stage \in ActiveStages \cup {"Completed"}
      /\ old.stage # "CallingCq" => new.partner = old.partner /\ new.stage # "CallingCq"
      /\ old.stage = "CallingCq" =>
             \/ new = old
             \/ /\ f.kind \in Answering
                /\ new.stage = "WaitingForReport" /\ new.partner = f.from
    BY <1>1, <1>m, TransitionKeeps DEF Answering
<1>3. reply \in OurFrames
    BY <1>1, ReplyIsOurs, OurFramesAre
<1>4. new.stage \in Exchanging =>
          \/ /\ old.stage \in Exchanging /\ new.ours = old.ours
             /\ reply.report = NoReport
          \/ new.ours \in Reports /\ reply.report = new.ours
    <2> HAVE new.stage \in Exchanging
    <2>1. \/ /\ old.stage \in Exchanging /\ new.ours = old.ours
             /\ Reply(old, f).report = NoReport
          \/ new # old /\ new.ours \in Reports /\ Reply(old, f).report = new.ours
        BY <1>1, <1>m, ReportsAgree
    <2> QED BY <2>1 DEF Nothing, Sends
<1>5. Applied(q, f) = IF reply = Nothing THEN next ELSE Emit(next, reply)
    BY DEF Applied, Rewritten
<1>6. grid \in Stations \cup {NoStation}
    BY <1>q, <1>2, FrameFields DEF LatchedGrid, ProtoState, Qso
<1>7. inStage \in Ages /\ since \in Ages
    BY <1>q, Counting DEF Qso
<1>8. calls \in 0..CallCap
    BY <1>q, Counting DEF Qso
<1>9. going \in BOOLEAN
    BY <1>q DEF Qso
<1> HIDE DEF old, new, regress, reply, resent, grid, inStage, going, calls, since
<1>10. /\ next \in Qso /\ next.stage = new.stage /\ next.partner = new.partner
       /\ next.ours = new.ours /\ next.cqer = q.cqer /\ next.manual = q.manual
       /\ next.aired = q.aired
    BY <1>q, <1>2, <1>6, <1>7, <1>8, <1>9, RewrittenQso
<1> HIDE DEF next
<1> DEFINE p == Applied(q, f)
<1>11. /\ p \in Qso /\ p.stage = new.stage /\ p.partner = new.partner /\ p.ours = new.ours
       /\ p.cqer = q.cqer /\ p.manual = q.manual
       /\ p.aired = IF reply.report = NoReport THEN q.aired ELSE reply.report
    <2>1. CASE reply = Nothing
        BY <2>1, <1>5, <1>10 DEF Nothing, Sends
    <2>2. CASE reply # Nothing
        BY <2>2, <1>3, <1>5, <1>10, EmitKeeps
    <2> QED BY <2>1, <2>2
<1> HIDE DEF p
<1>12. p.stage \in Exchanging => p.ours \in Reports /\ p.aired = p.ours
    BY <1>1, <1>4, <1>11, LadderAssumption DEF Sound
<1>13. p.stage = "CallingCq" => p.cqer /\ p.partner = NoStation
    BY <1>1, <1>2, <1>11 DEF Sound
<1>14. Sound(p)
    BY <1>11, <1>12, <1>13 DEF Sound
<1>15. /\ q.stage \notin ActiveStages => p.stage = q.stage
       /\ q.stage \in ActiveStages => p.stage \in ActiveStages \cup {"Completed"}
       /\ q.stage # "CallingCq" => p.partner = q.partner /\ p.stage # "CallingCq"
    BY <1>1, <1>2, <1>11
<1>16. q.stage = "CallingCq" =>
           \/ p.stage = "CallingCq"
           \/ /\ f.kind \in Answering
              /\ p.stage = "WaitingForReport" /\ p.partner = f.from
    BY <1>1, <1>2, <1>11
<1> QED BY <1>11, <1>14, <1>15, <1>16 DEF p

-----------------------------------------------------------------------------
(***************************************************************************)
(* The map.                                                                *)
(***************************************************************************)

\* A contact reaches the log in this step for the first time, and not beside
\* one completed a moment ago.
LogsOnce ==
    \A id \in QsoIds :
        logged'[id] > logged[id] =>
            /\ logged[id] = 0
            /\ qsos[id].stage = "Absent" =>
                   ~\E other \in QsoIds :
                       /\ qsos[other].partner = qsos'[id].partner
                       /\ qsos[other].stage = "Completed"
                       /\ qsos[other].manual /\ ~qsos[other].cqer
                       /\ qsos[other].inStage <= ReworkGrace

\* p is what a QSO q may become without taking a partner or coming back.
Follows(q, p) ==
    /\ Sound(p)
    /\ p.stage # "Absent" =>
           /\ q.stage # "Absent"
           /\ p.cqer = q.cqer /\ p.partner = q.partner
           /\ p.stage \in ActiveStages => q.stage \in ActiveStages
           /\ p.stage = "Completed" => q.stage \in ActiveStages \cup {"Completed"}
           /\ p.stage = "CallingCq" => q.stage = "CallingCq"

\* A QSO without its record, and one whose counters alone changed, follow.
LEMMA FollowsSimply ==
    ASSUME NEW q, Sound(q)
    PROVE  /\ Sound(Absent) /\ Follows(q, q) /\ Follows(q, Absent)
           /\ \A p \in Qso :
                  /\ p.stage = q.stage /\ p.partner = q.partner /\ p.cqer = q.cqer
                  /\ p.ours = q.ours /\ p.aired = q.aired
                  => Follows(q, p)
<1>1. Nothing \in OurFrames /\ 0 \in 0..CallCap /\ 0 \in Ages
    BY OurFramesAre, Counting DEF Ages
<1>2. Absent \in Qso
    BY <1>1 DEF Absent, Qso
<1>3. Absent.stage = "Absent"
    BY DEF Absent
<1>4. Sound(Absent)
    BY <1>2, <1>3 DEF Sound, Exchanging
<1> QED BY <1>3, <1>4 DEF Follows, Sound

\* Steps that open no QSO and give none a partner keep the invariant.
LEMMA FollowStep ==
    ASSUME EngineInv, RestOK', born' = born,
           qsos' \in [QsoIds -> Qso],
           \A id \in QsoIds : Follows(qsos[id], qsos'[id]),
           \A s \in Stations, id \in QsoIds :
               id \in mapped[s] /\ qsos'[id].stage # "Absent" => id \in mapped'[s],
           rx'.ids = {} \/ (rx'.frame = rx.frame /\ rx'.ids \subseteq rx.ids),
           \A id \in QsoIds :
               logged'[id] = logged[id] \/ (Active(qsos[id]) /\ qsos'[id].stage = "Completed")
    PROVE  EngineInv' /\ LogsOnce
<1>1. QsosSound'
    BY DEF QsosSound, Follows
<1>2. IsIndexed'
    <2>1. "Absent" \notin ActiveStages \cup {"Completed"}
        BY DEF ActiveStages
    <2> QED BY <2>1 DEF EngineInv, IsIndexed, Follows
<1>3. \A id \in QsoIds : Active(qsos'[id]) =>
          /\ Active(qsos[id]) /\ qsos'[id].partner = qsos[id].partner
          /\ qsos'[id].cqer = qsos[id].cqer
    BY DEF Follows, Active, ActiveStages
<1>4. OnePerStationAndRole'
    BY <1>3 DEF EngineInv, OnePerStationAndRole, Active
<1>5. AnswerIsFree'
    <2>1. CASE rx'.ids = {}
        BY <2>1 DEF AnswerIsFree
    <2>2. CASE rx'.frame = rx.frame /\ rx'.ids \subseteq rx.ids
        <3>1. \A id \in QsoIds : qsos'[id].stage = "CallingCq" => qsos[id].stage = "CallingCq"
            BY DEF Follows
        <3>2. rx.ids \subseteq QsoIds
            BY DEF EngineInv, RestOK
        <3>3. rx'.ids # {} => rx'.frame \in Frames
            BY <2>2 DEF EngineInv, AnswerIsFree
        <3>4. ASSUME rx'.frame.kind \in Answering, NEW id \in rx'.ids,
                     qsos'[id].stage = "CallingCq"
              PROVE  /\ \A j \in QsoIds : Active(qsos'[j]) => qsos'[j].partner # rx'.frame.from
                     /\ \A j \in rx'.ids : qsos'[j].stage = "CallingCq" => j = id
            <4>1. qsos[id].stage = "CallingCq" /\ id \in rx.ids /\ rx.frame.kind \in Answering
                BY <2>2, <3>1, <3>2, <3>4
            <4>2. /\ \A j \in QsoIds : Active(qsos[j]) => qsos[j].partner # rx.frame.from
                  /\ \A j \in rx.ids : qsos[j].stage = "CallingCq" => j = id
                BY <4>1 DEF EngineInv, AnswerIsFree
            <4> QED BY <1>3, <2>2, <3>1, <3>2, <4>2
        <3> QED BY <3>3, <3>4 DEF AnswerIsFree, Active
    <2> QED BY <2>1, <2>2
<1>6. LogIsOver'
    <2> SUFFICES ASSUME NEW id \in QsoIds
                 PROVE  /\ id > born => qsos'[id].stage = "Absent" /\ logged'[id] = 0
                        /\ logged'[id] > 0 => qsos'[id].stage \notin ActiveStages
        BY DEF LogIsOver, Active
    <2>1. /\ id > born => qsos[id].stage = "Absent" /\ logged[id] = 0
          /\ logged[id] > 0 => qsos[id].stage \notin ActiveStages
        BY DEF EngineInv, LogIsOver, Active
    <2>2. CASE logged'[id] = logged[id]
        BY <2>1, <2>2 DEF Follows, ActiveStages
    <2>3. CASE Active(qsos[id]) /\ qsos'[id].stage = "Completed"
        BY <2>1, <2>3 DEF Active, ActiveStages
    <2> QED BY <2>2, <2>3
<1>7. LogsOnce
    <2> SUFFICES ASSUME NEW id \in QsoIds, logged'[id] > logged[id]
                 PROVE  logged[id] = 0 /\ qsos[id].stage # "Absent"
        BY DEF LogsOnce
    <2>1. logged[id] \in Nat /\ logged'[id] \in Nat
        BY DEF EngineInv, RestOK
    <2>2. Active(qsos[id])
        BY <2>1
    <2>3. ~(logged[id] > 0)
        BY <2>2 DEF EngineInv, LogIsOver
    <2> QED BY <2>1, <2>2, <2>3 DEF Active, ActiveStages
<1> QED BY <1>1, <1>2, <1>4, <1>5, <1>6, <1>7 DEF EngineInv

-----------------------------------------------------------------------------
(***************************************************************************)
(* Commands.                                                               *)
(***************************************************************************)

\* A QSO as it is opened: the rung it was opened at, and what it sent.
LEMMA OpenedIs ==
    ASSUME NEW rung \in ProtoState, NEW cqer \in BOOLEAN, NEW manual \in BOOLEAN,
           NEW frame \in OurFrames
    PROVE  LET q == Opened(rung, cqer, manual, frame)
           IN  /\ q \in Qso /\ q.stage = rung.stage /\ q.partner = rung.partner
               /\ q.ours = rung.ours /\ q.cqer = cqer
               /\ frame.report # NoReport => q.aired = frame.report
<1> DEFINE base == [stage |-> rung.stage, partner |-> rung.partner, theirs |-> rung.theirs,
          ours |-> rung.ours, grid |-> rung.grid, cqer |-> cqer, manual |-> manual,
          calls |-> 1, progressed |-> FALSE, inStage |-> 0, sinceFirst |-> 0,
          sinceCall |-> 0, sinceAttempt |-> Retention + 1, last |-> Nothing,
          aired |-> NoReport, logGrid |-> NoStation]
<1>1. 1 \in 0..CallCap /\ 0 \in Ages /\ Retention + 1 \in Ages
    BY Counting DEF Ages
<1>2. base \in Qso
    BY <1>1, OurFramesAre DEF Qso, ProtoState
<1>3. /\ base.stage = rung.stage /\ base.partner = rung.partner /\ base.ours = rung.ours
      /\ base.cqer = cqer
    OBVIOUS
<1>4. Opened(rung, cqer, manual, frame) = Emit(base, frame)
    BY DEF Opened
<1> HIDE DEF base
<1> QED BY <1>2, <1>3, <1>4, EmitKeeps

\* A new CQ has no partner yet, so it meets no exchange in progress.
LEMMA StartCqStep ==
    ASSUME EngineInv, NEW manual \in BOOLEAN, StartCq(manual)
    PROVE  EngineInv' /\ LogsOnce
<1> DEFINE rung  == Rung("CallingCq", NoStation, NoReport, NoReport, NoStation)
           frame == IF manual THEN Sends("Cq") ELSE Nothing
           new   == Opened(rung, TRUE, manual, frame)
           b     == born + 1
<1>1. rung \in ProtoState /\ rung.stage = "CallingCq" /\ rung.partner = NoStation
    BY DEF ProtoState, Rung, ActiveStages
<1>2. frame \in OurFrames
    BY OurFramesAre
<1> HIDE DEF rung, frame
<1>3. new \in Qso /\ new.stage = "CallingCq" /\ new.partner = NoStation /\ new.cqer
    <2>1. PICK role \in BOOLEAN : role = TRUE
        OBVIOUS
    <2>2. new = Opened(rung, role, manual, frame)
        BY <2>1
    <2> HIDE DEF new
    <2>3. /\ new \in Qso /\ new.stage = rung.stage /\ new.partner = rung.partner
          /\ new.cqer = role
        BY <1>1, <1>2, <2>2, OpenedIs
    <2> QED BY <1>1, <2>1, <2>3
<1>4. Sound(new)
    BY <1>3 DEF Sound, Exchanging
<1>5. qsos' = [qsos EXCEPT ![b] = new] /\ born' = b
    BY DEF StartCq, rung, frame
<1>6. /\ rx = Idle /\ mapped' = mapped /\ rx' = rx /\ heard' = heard /\ muted' = muted
      /\ watchdog' = watchdog /\ doomed' = doomed /\ scanned' = scanned
      /\ logged' = logged /\ failed' = failed /\ born < MaxQsos
    BY DEF StartCq, LoopIsFree
<1>7. b \in QsoIds /\ born \in Nat /\ b \in 0..MaxQsos
    BY <1>6, Counting DEF EngineInv, RestOK, QsoIds
<1> HIDE DEF new, b
<1>8. /\ qsos \in [QsoIds -> Qso] /\ qsos' \in [QsoIds -> Qso] /\ qsos'[b] = new
      /\ \A id \in QsoIds : id # b => qsos'[id] = qsos[id]
    BY <1>3, <1>5, <1>7 DEF EngineInv, QsosSound
<1>9. RestOK'
    BY <1>5, <1>6, <1>7 DEF EngineInv, RestOK
<1>10. QsosSound'
    BY <1>4, <1>8 DEF EngineInv, QsosSound
<1>11. IsIndexed'
    BY <1>3, <1>6, <1>8 DEF EngineInv, IsIndexed
<1>12. OnePerStationAndRole'
    BY <1>3, <1>8 DEF EngineInv, OnePerStationAndRole, Active
<1>13. AnswerIsFree'
    <2>1. rx'.ids = {}
        BY <1>6 DEF Idle
    <2> QED BY <2>1 DEF AnswerIsFree
<1>14. LogIsOver'
    <2> SUFFICES ASSUME NEW id \in QsoIds
                 PROVE  /\ id > b => qsos'[id].stage = "Absent" /\ logged[id] = 0
                        /\ logged[id] > 0 => qsos'[id].stage \notin ActiveStages
        BY <1>5, <1>6 DEF LogIsOver, Active
    <2>1. /\ id > born => qsos[id].stage = "Absent" /\ logged[id] = 0
          /\ logged[id] > 0 => qsos[id].stage \notin ActiveStages
        BY DEF EngineInv, LogIsOver, Active
    <2>2. CASE id = b
        <3>1. logged[id] = 0 /\ ~(id > b)
            BY <2>1, <2>2, <1>7 DEF b, QsoIds
        <3> QED BY <3>1
    <2>3. CASE id # b
        <3>1. id > b => id > born
            BY <1>7 DEF b, QsoIds
        <3> QED BY <2>1, <2>3, <3>1, <1>8
    <2> QED BY <2>2, <2>3
<1>15. LogsOnce
    BY <1>6 DEF LogsOnce, EngineInv, RestOK
<1> QED BY <1>9, <1>10, <1>11, <1>12, <1>13, <1>14, <1>15 DEF EngineInv

\* Opening an exchange in which we call s: the index finds every exchange of
\* that kind with s that is in progress, so none of them stays active.
LEMMA OpenForStep ==
    ASSUME EngineInv, NEW s \in Stations, NEW new, Sound(new), OpenFor(s, new),
           new.partner = s, ~new.cqer, rx = Idle,
           new.stage = "Completed" => RecentlyCompleted(s) = {},
           UNCHANGED <<rx, heard, muted, watchdog, doomed, scanned>>
    PROVE  EngineInv' /\ LogsOnce
<1> DEFINE b    == born + 1
           gone == Superseded(s)
           map  == Supersede(s)
<1>1. /\ born < MaxQsos /\ born' = b
      /\ qsos' = [map EXCEPT ![b] = new]
      /\ mapped' = [mapped EXCEPT ![s] = (@ \ gone) \cup {b}]
      /\ failed' = failed \cup gone
      /\ logged' = IF new.stage = "Completed" THEN [logged EXCEPT ![b] = @ + 1] ELSE logged
    BY DEF OpenFor
<1>2. b \in QsoIds /\ born \in Nat /\ b \in 0..MaxQsos
    BY <1>1, Counting DEF EngineInv, RestOK, QsoIds
<1>3. /\ mapped \in [Stations -> SUBSET QsoIds] /\ logged \in [QsoIds -> Nat]
      /\ qsos \in [QsoIds -> Qso] /\ \A id \in QsoIds : Sound(qsos[id])
    BY DEF EngineInv, RestOK, QsosSound
<1>4. gone = {id \in mapped[s] : Active(qsos[id])}
    BY DEF Superseded
<1>5. gone \subseteq QsoIds
    BY <1>3, <1>4
<1>6. \A id \in QsoIds : map[id] = IF id \in gone
                                   THEN [qsos[id] EXCEPT !.stage = "Failed", !.inStage = 0]
                                   ELSE qsos[id]
    BY DEF Supersede
<1>7. \A id \in QsoIds : id \in gone => Sound(map[id]) /\ map[id].stage = "Failed"
    <2> SUFFICES ASSUME NEW id \in QsoIds, id \in gone
                 PROVE  Sound(map[id]) /\ map[id].stage = "Failed"
        OBVIOUS
    <2> HIDE DEF map, gone
    <2>1. map[id] = [qsos[id] EXCEPT !.stage = "Failed", !.inStage = 0]
        BY <1>6
    <2>2. qsos[id] \in Qso /\ 0 \in Ages
        BY <1>3, Counting DEF Ages
    <2>3. map[id] \in Qso /\ map[id].stage = "Failed"
        BY <2>1, <2>2 DEF Qso
    <2> QED BY <2>3 DEF Sound, Exchanging
<1>8. DOMAIN map = QsoIds
    BY DEF Supersede
<1> HIDE DEF map, gone, b
<1>9. qsos'[b] = new /\ \A id \in QsoIds : id # b => qsos'[id] = map[id]
    BY <1>1, <1>2, <1>8
<1>10. QsosSound'
    <2>1. \A id \in QsoIds : Sound(map[id])
        BY <1>3, <1>6, <1>7
    <2>2. \A id \in QsoIds : Sound(qsos'[id])
        BY <1>9, <2>1
    <2>3. DOMAIN qsos' = QsoIds /\ qsos' = [id \in QsoIds |-> qsos'[id]]
        BY <1>1, <1>8
    <2>4. qsos' \in [QsoIds -> Qso]
        BY <2>2, <2>3 DEF Sound
    <2> QED BY <2>2, <2>4 DEF QsosSound
<1>11. RestOK'
    <2>1. logged' \in [QsoIds -> Nat]
        BY <1>1, <1>2, <1>3
    <2>2. mapped' \in [Stations -> SUBSET QsoIds]
        BY <1>1, <1>2, <1>3
    <2>3. failed' \subseteq QsoIds
        BY <1>1, <1>5 DEF EngineInv, RestOK
    <2> QED BY <2>1, <2>2, <2>3, <1>1, <1>2 DEF EngineInv, RestOK
<1>12. \A id \in QsoIds : id # b /\ qsos'[id].stage \in ActiveStages \cup {"Completed"} =>
           qsos'[id] = qsos[id] /\ id \notin gone
    BY <1>6, <1>7, <1>9 DEF ActiveStages
<1>13. IsIndexed'
    <2> SUFFICES ASSUME NEW id \in QsoIds, ~qsos'[id].cqer,
                        qsos'[id].stage \in ActiveStages \cup {"Completed"}
                 PROVE  qsos'[id].partner \in Stations /\ id \in mapped'[qsos'[id].partner]
        BY DEF IsIndexed
    <2>1. CASE id = b
        BY <2>1, <1>1, <1>3, <1>9
    <2>2. CASE id # b
        <3>1. qsos'[id] = qsos[id] /\ id \notin gone
            BY <2>2, <1>12
        <3>2. qsos[id].partner \in Stations /\ id \in mapped[qsos[id].partner]
            BY <3>1 DEF EngineInv, IsIndexed
        <3> QED BY <3>1, <3>2, <1>1, <1>3
    <2> QED BY <2>1, <2>2
<1>14. \A id \in QsoIds : id # b /\ qsos'[id].stage \in ActiveStages /\ ~qsos'[id].cqer
           => qsos'[id].partner # s
    <2> SUFFICES ASSUME NEW id \in QsoIds, id # b, qsos'[id].stage \in ActiveStages,
                        ~qsos'[id].cqer, qsos'[id].partner = s
                 PROVE  FALSE
        OBVIOUS
    <2>1. qsos'[id] = qsos[id] /\ id \notin gone
        BY <1>12
    <2>2. id \in mapped[s]
        BY <2>1 DEF EngineInv, IsIndexed
    <2> QED BY <2>1, <2>2, <1>4 DEF Active
<1>15. OnePerStationAndRole'
    <2> SUFFICES ASSUME NEW i \in QsoIds, NEW j \in QsoIds, i # j,
                        qsos'[i].stage \in ActiveStages, qsos'[j].stage \in ActiveStages,
                        qsos'[i].partner = qsos'[j].partner, qsos'[i].partner # NoStation,
                        qsos'[i].cqer = qsos'[j].cqer
                 PROVE  FALSE
        BY DEF OnePerStationAndRole, Active
    <2>1. CASE i = b
        BY <2>1, <1>9, <1>14
    <2>2. CASE j = b
        BY <2>2, <1>9, <1>14
    <2>3. CASE i # b /\ j # b
        <3>1. qsos'[i] = qsos[i] /\ qsos'[j] = qsos[j]
            BY <2>3, <1>12
        <3> QED BY <3>1 DEF EngineInv, OnePerStationAndRole, Active
    <2> QED BY <2>1, <2>2, <2>3
<1>16. AnswerIsFree'
    <2>1. rx'.ids = {}
        BY DEF Idle
    <2> QED BY <2>1 DEF AnswerIsFree
<1>17. \A id \in QsoIds : id # b => logged'[id] = logged[id]
    BY <1>1, <1>2, <1>3
<1>18. logged[b] = 0 /\ qsos[b].stage = "Absent" /\ (logged'[b] > 0 => new.stage = "Completed")
    <2>1. b > born
        BY <1>2 DEF b
    <2>2. logged[b] = 0 /\ qsos[b].stage = "Absent"
        BY <2>1, <1>2 DEF EngineInv, LogIsOver
    <2> QED BY <2>2, <1>1
<1>19. LogIsOver'
    <2> SUFFICES ASSUME NEW id \in QsoIds
                 PROVE  /\ id > b => qsos'[id].stage = "Absent" /\ logged'[id] = 0
                        /\ logged'[id] > 0 => qsos'[id].stage \notin ActiveStages
        BY <1>1 DEF LogIsOver, Active
    <2>1. /\ id > born => qsos[id].stage = "Absent" /\ logged[id] = 0
          /\ logged[id] > 0 => qsos[id].stage \notin ActiveStages
        BY DEF EngineInv, LogIsOver, Active
    <2>2. CASE id = b
        <3>1. ~(id > b)
            BY <2>2, <1>2 DEF QsoIds
        <3> QED BY <2>2, <3>1, <1>9, <1>18 DEF ActiveStages
    <2>3. CASE id # b
        <3>1. id > b => id > born
            BY <1>2 DEF b, QsoIds
        <3>2. id \in gone => qsos[id].stage \in ActiveStages /\ qsos'[id].stage = "Failed"
            BY <2>3, <1>4, <1>7, <1>9 DEF Active
        <3>3. id \notin gone => qsos'[id] = qsos[id]
            BY <2>3, <1>6, <1>9
        <3> QED BY <2>1, <2>3, <3>1, <3>2, <3>3, <1>17 DEF ActiveStages
    <2> QED BY <2>2, <2>3
<1>20. LogsOnce
    <2> SUFFICES ASSUME NEW id \in QsoIds, logged'[id] > logged[id]
                 PROVE  /\ logged[id] = 0
                        /\ ~\E other \in QsoIds :
                              /\ qsos[other].partner = qsos'[id].partner
                              /\ qsos[other].stage = "Completed"
                              /\ qsos[other].manual /\ ~qsos[other].cqer
                              /\ qsos[other].inStage <= ReworkGrace
        BY DEF LogsOnce
    <2>1. id = b
        <3>1. logged[id] \in Nat
            BY <1>3
        <3> QED BY <3>1, <1>17
    <2>2. logged[id] = 0 /\ new.stage = "Completed" /\ qsos'[id].partner = s
        BY <2>1, <1>9, <1>18
    <2>3. ASSUME NEW other \in QsoIds, qsos[other].partner = s,
                 qsos[other].stage = "Completed", qsos[other].manual, ~qsos[other].cqer,
                 qsos[other].inStage <= ReworkGrace
          PROVE  FALSE
        <3>1. other \in mapped[s]
            BY <2>3 DEF EngineInv, IsIndexed
        <3> QED BY <2>2, <2>3, <3>1 DEF RecentlyCompleted
    <2> QED BY <2>2, <2>3
<1> QED BY <1>10, <1>11, <1>13, <1>15, <1>16, <1>19, <1>20 DEF EngineInv

\* A repeated frame is charged to its QSO and changes nothing else.
LEMMA ResendStep ==
    ASSUME EngineInv, NEW id, Resend(id),
           UNCHANGED <<rx, heard, muted, watchdog, doomed, scanned>>
    PROVE  EngineInv' /\ LogsOnce
<1> DEFINE charged == [qsos[id] EXCEPT !.calls = OneMore(@), !.sinceCall = 0,
                                       !.sinceAttempt = 0]
<1>1. /\ qsos \in [QsoIds -> Qso] /\ \A i \in QsoIds : Sound(qsos[i])
    BY DEF EngineInv, QsosSound
<1>2. id \in QsoIds =>
          /\ charged \in Qso /\ charged.stage = qsos[id].stage
          /\ charged.partner = qsos[id].partner /\ charged.cqer = qsos[id].cqer
          /\ charged.ours = qsos[id].ours /\ charged.aired = qsos[id].aired
    <2> SUFFICES ASSUME id \in QsoIds
                 PROVE  /\ charged \in Qso /\ charged.stage = qsos[id].stage
                        /\ charged.partner = qsos[id].partner
                        /\ charged.cqer = qsos[id].cqer
                        /\ charged.ours = qsos[id].ours /\ charged.aired = qsos[id].aired
        OBVIOUS
    <2>1. qsos[id] \in Qso
        BY <1>1
    <2>2. OneMore(qsos[id].calls) \in 0..CallCap /\ 0 \in Ages
        BY <2>1, Counting DEF Qso
    <2> QED BY <2>1, <2>2 DEF Qso
<1>3. qsos' = qsos \/ qsos' = [qsos EXCEPT ![id] = charged]
    BY DEF Resend
<1> HIDE DEF charged
<1>4. id \in QsoIds => Follows(qsos[id], charged)
    BY <1>1, <1>2, FollowsSimply
<1>5. qsos' \in [QsoIds -> Qso] /\ \A i \in QsoIds : Follows(qsos[i], qsos'[i])
    BY <1>1, <1>2, <1>3, <1>4, FollowsSimply
<1>6. RestOK' /\ born' = born
    BY DEF EngineInv, RestOK, Resend
<1>7. \A s \in Stations, i \in QsoIds :
          i \in mapped[s] /\ qsos'[i].stage # "Absent" => i \in mapped'[s]
    BY DEF Resend
<1>8. rx'.frame = rx.frame /\ rx'.ids \subseteq rx.ids /\ logged' = logged
    BY DEF Resend
<1> QED BY <1>5, <1>6, <1>7, <1>8, FollowStep

\* The rung and the frame of an operator's step.
LEMMA StepIs ==
    ASSUME NEW s \in Stations, NEW step \in Steps, NEW ours \in Reports, NEW theirs \in Reports
    PROVE  /\ StepRung(s, step, ours, theirs) \in ProtoState
           /\ StepRung(s, step, ours, theirs).partner = s
           /\ StepRung(s, step, ours, theirs).ours = ours
           /\ StepRung(s, step, ours, theirs).stage \in
                  {"SendingReport", "WaitingForConfirmation", "Completed"}
           /\ StepRung(s, step, ours, theirs).stage = "Completed" => step = "SeventyThree"
           /\ StepFrame(step, ours) \in OurFrames
           /\ StepRung(s, step, ours, theirs).stage = "SendingReport" =>
                  StepFrame(step, ours).report = ours
<1>1. CASE step = "Report"
    <2>1. /\ StepRung(s, step, ours, theirs) = Rung("SendingReport", s, NoReport, ours, NoStation)
          /\ StepFrame(step, ours) = SendsReport("SignalReport", ours)
        BY <1>1 DEF StepRung, StepFrame
    <2>2. StepFrame(step, ours) \in OurFrames
        BY <2>1, OurFramesAre DEF Reporting
    <2> QED BY <2>1, <2>2 DEF Rung, ProtoState, SendsReport, ActiveStages
<1>2. CASE step = "ReportAck"
    <2>1. /\ StepRung(s, step, ours, theirs) = Rung("SendingReport", s, theirs, ours, NoStation)
          /\ StepFrame(step, ours) = SendsReport("ReportAck", ours)
        BY <1>2 DEF StepRung, StepFrame
    <2>2. StepFrame(step, ours) \in OurFrames
        BY <2>1, OurFramesAre DEF Reporting
    <2> QED BY <2>1, <2>2 DEF Rung, ProtoState, SendsReport, ActiveStages
<1>3. CASE step = "Rr73"
    <2>1. /\ StepRung(s, step, ours, theirs)
                 = Rung("WaitingForConfirmation", s, theirs, ours, NoStation)
          /\ StepFrame(step, ours) = Sends("FinalConfirmation")
        BY <1>3 DEF StepRung, StepFrame
    <2>2. StepFrame(step, ours) \in OurFrames
        BY <2>1, OurFramesAre DEF Closing
    <2> QED BY <2>1, <2>2 DEF Rung, ProtoState, ActiveStages
<1>4. CASE step = "SeventyThree"
    <2>1. /\ StepRung(s, step, ours, theirs) = Rung("Completed", s, theirs, ours, NoStation)
          /\ StepFrame(step, ours) = Sends("SeventyThree")
        BY <1>4 DEF StepRung, StepFrame
    <2>2. StepFrame(step, ours) \in OurFrames
        BY <2>1, OurFramesAre DEF Closing
    <2> QED BY <1>4, <2>1, <2>2 DEF Rung, ProtoState, ActiveStages
<1> QED BY <1>1, <1>2, <1>3, <1>4 DEF Steps

\* Advancing a QSO that is behind the operator's step: it is still in
\* progress, so it is logged for the first time if the step completes it.
LEMMA AdvanceStep ==
    ASSUME EngineInv, NEW s \in Stations, NEW step \in Steps, NEW ours \in Reports,
           NEW theirs \in Reports, NEW id, StepIsAhead(qsos[id], step),
           Advance(id, StepRung(s, step, ours, theirs), StepFrame(step, ours)),
           UNCHANGED <<rx, heard, muted, watchdog, doomed, scanned>>
    PROVE  EngineInv' /\ LogsOnce
<1> DEFINE rung  == StepRung(s, step, ours, theirs)
           frame == StepFrame(step, ours)
           q     == qsos[id]
           base  == [q EXCEPT !.stage = rung.stage, !.theirs = rung.theirs,
                              !.ours = rung.ours, !.grid = rung.grid, !.inStage = 0]
           p     == Emit(base, frame)
<1>1. qsos \in [QsoIds -> Qso] /\ \A i \in QsoIds : Sound(qsos[i])
    BY DEF EngineInv, QsosSound
<1>2. /\ rung \in ProtoState /\ rung.ours = ours /\ frame \in OurFrames
      /\ rung.stage \in {"SendingReport", "WaitingForConfirmation", "Completed"}
      /\ rung.stage = "SendingReport" => frame.report = ours
    BY StepIs
<1>3. q.stage \in ActiveStages
    <2>1. LadderRank(q) > 0 /\ StepLadderRank(step) > LadderRank(q)
        BY DEF StepIsAhead
    <2>2. StepLadderRank(step) <= 4
        BY DEF StepLadderRank, Steps
    <2>3. LadderRank(q) \in 1..3
        <3>1. LadderRank(q) \in 0..4 /\ StepLadderRank(step) \in 0..4
            BY DEF LadderRank, StepLadderRank, Steps
        <3> QED BY <2>1, <2>2, <3>1
    <2> QED BY <2>3 DEF LadderRank, ActiveStages
<1>4. /\ qsos' = [qsos EXCEPT ![id] = p] /\ born' = born /\ mapped' = mapped /\ failed' = failed
      /\ logged' = IF rung.stage = "Completed" THEN [logged EXCEPT ![id] = @ + 1] ELSE logged
    BY DEF Advance
<1> HIDE DEF rung, frame
<1>5. id \in QsoIds =>
          /\ Follows(q, p) /\ p \in Qso /\ p.stage = rung.stage
    <2> SUFFICES ASSUME id \in QsoIds PROVE Follows(q, p) /\ p \in Qso /\ p.stage = rung.stage
        OBVIOUS
    <2>1. q \in Qso /\ 0 \in Ages
        BY <1>1, Counting DEF Ages
    <2>2. /\ base \in Qso /\ base.stage = rung.stage /\ base.ours = rung.ours
          /\ base.partner = q.partner /\ base.cqer = q.cqer
        BY <1>2, <2>1 DEF Qso, ProtoState
    <2> HIDE DEF q, base
    <2>3. /\ p \in Qso /\ p.stage = rung.stage /\ p.ours = ours
          /\ p.partner = q.partner /\ p.cqer = q.cqer
          /\ frame.report # NoReport => p.aired = frame.report
        BY <1>2, <2>2, EmitKeeps
    <2> HIDE DEF p
    <2>4. Sound(p)
        BY <1>2, <2>3, LadderAssumption DEF Sound, Exchanging
    <2> QED BY <1>2, <1>3, <2>3, <2>4 DEF Follows, ActiveStages
<1> HIDE DEF p
<1>6. qsos' \in [QsoIds -> Qso] /\ \A i \in QsoIds : Follows(qsos[i], qsos'[i])
    BY <1>1, <1>4, <1>5, FollowsSimply
<1>7. logged \in [QsoIds -> Nat]
    BY DEF EngineInv, RestOK
<1>8. RestOK'
    <2>1. id \in QsoIds => [logged EXCEPT ![id] = @ + 1] \in [QsoIds -> Nat]
        BY <1>7
    <2>2. id \notin QsoIds => [logged EXCEPT ![id] = @ + 1] = logged
        BY <1>7
    <2>3. logged' \in [QsoIds -> Nat]
        BY <1>4, <1>7, <2>1, <2>2
    <2> QED BY <1>4, <2>3 DEF EngineInv, RestOK
<1>9. \A i \in QsoIds :
          logged'[i] = logged[i] \/ (Active(qsos[i]) /\ qsos'[i].stage = "Completed")
    BY <1>1, <1>3, <1>4, <1>5, <1>7 DEF Active
<1>10. \A t \in Stations, i \in QsoIds :
           i \in mapped[t] /\ qsos'[i].stage # "Absent" => i \in mapped'[t]
    BY <1>4
<1>11. rx'.frame = rx.frame /\ rx'.ids \subseteq rx.ids
    OBVIOUS
<1> QED BY <1>4, <1>6, <1>8, <1>9, <1>10, <1>11, FollowStep

\* A call on a CQ repeats the frame of the manual exchange that is open, or
\* opens an exchange.
LEMMA RespondToCqStep ==
    ASSUME EngineInv, NEW s \in Stations, NEW manual \in BOOLEAN, RespondToCq(s, manual)
    PROVE  EngineInv' /\ LogsOnce
<1> DEFINE new == Opened(CallOpening(s), FALSE, manual, Sends("CqResponse"))
<1>1. rx = Idle /\ UNCHANGED <<rx, heard, muted, watchdog, doomed, scanned>>
    BY DEF RespondToCq, LoopIsFree
<1>2. Resend(Max(ActiveManual(s))) \/ OpenFor(s, new)
    BY DEF RespondToCq
<1>3. CASE Resend(Max(ActiveManual(s)))
    BY <1>1, <1>3, ResendStep
<1>4. CASE OpenFor(s, new)
    <2>1. /\ CallOpening(s) \in ProtoState /\ CallOpening(s).stage = "RespondingToCq"
          /\ CallOpening(s).partner = s
        BY DEF CallOpening, Rung, ProtoState, ActiveStages
    <2>2. Sends("CqResponse") \in OurFrames
        BY OurFramesAre
    <2>3. PICK role \in BOOLEAN : role = FALSE
        OBVIOUS
    <2>4. new = Opened(CallOpening(s), role, manual, Sends("CqResponse"))
        BY <2>3
    <2> HIDE DEF new
    <2>5. new \in Qso /\ new.stage = "RespondingToCq" /\ new.partner = s /\ new.cqer = role
        BY <2>1, <2>2, <2>4, OpenedIs
    <2>6. Sound(new)
        BY <2>5 DEF Sound, Exchanging
    <2>7. new.partner = s /\ ~new.cqer /\ new.stage # "Completed"
        BY <2>3, <2>5
    <2> QED BY <1>1, <1>4, <2>6, <2>7, OpenForStep
<1> QED BY <1>2, <1>3, <1>4

\* A step of the operator advances, repeats or opens; a closing step opens an
\* exchange only when none with that station was completed a moment ago.
LEMMA RespondToCallerStep ==
    ASSUME EngineInv, NEW s \in Stations, NEW step \in Steps, NEW ours \in Reports,
           NEW theirs \in Reports, RespondToCaller(s, step, ours, theirs)
    PROVE  EngineInv' /\ LogsOnce
<1> DEFINE rung  == StepRung(s, step, ours, theirs)
           frame == StepFrame(step, ours)
           new   == Opened(rung, FALSE, TRUE, frame)
           id    == Max(ActiveManual(s))
<1>1. rx = Idle /\ UNCHANGED <<rx, heard, muted, watchdog, doomed, scanned>>
    BY DEF RespondToCaller, LoopIsFree
<1>2. \/ StepIsAhead(qsos[id], step) /\ Advance(id, rung, frame)
      \/ Resend(id)
      \/ \E i : Resend(i)
      \/ ~(IsClosing(step) /\ RecentlyCompleted(s) # {}) /\ OpenFor(s, new)
    BY Zenon DEF RespondToCaller
<1>3. CASE StepIsAhead(qsos[id], step) /\ Advance(id, rung, frame)
    BY <1>1, <1>3, AdvanceStep
<1>4. CASE \E i : Resend(i)
    BY <1>1, <1>4, ResendStep
<1>5. CASE ~(IsClosing(step) /\ RecentlyCompleted(s) # {}) /\ OpenFor(s, new)
    <2>1. /\ rung \in ProtoState /\ rung.ours = ours /\ frame \in OurFrames /\ rung.partner = s
          /\ rung.stage \in {"SendingReport", "WaitingForConfirmation", "Completed"}
          /\ rung.stage = "SendingReport" => frame.report = ours
          /\ rung.stage = "Completed" => step = "SeventyThree"
        BY StepIs
    <2>2. PICK role \in BOOLEAN : role = FALSE
        OBVIOUS
    <2>3. PICK manual \in BOOLEAN : manual = TRUE
        OBVIOUS
    <2>4. new = Opened(rung, role, manual, frame)
        BY <2>2, <2>3
    <2> HIDE DEF new, rung, frame
    <2>5. /\ new \in Qso /\ new.stage = rung.stage /\ new.partner = s /\ new.cqer = role
          /\ new.ours = ours /\ (frame.report # NoReport => new.aired = frame.report)
        BY <2>1, <2>4, OpenedIs
    <2>6. Sound(new)
        BY <2>1, <2>5, LadderAssumption DEF Sound, Exchanging
    <2>7. new.stage = "Completed" => RecentlyCompleted(s) = {}
        <3>1. step = "SeventyThree" => IsClosing(step)
            BY DEF IsClosing, StepLadderRank
        <3> QED BY <1>5, <2>1, <2>5, <3>1
    <2>8. new.partner = s /\ ~new.cqer
        BY <2>2, <2>5
    <2> QED BY <1>1, <1>5, <2>6, <2>7, <2>8, OpenForStep
<1> QED BY <1>2, <1>3, <1>4, <1>5

\* A record that is removed takes its place in the index with it.
LEMMA DropStep ==
    ASSUME EngineInv, NEW id \in QsoIds, qsos' = [qsos EXCEPT ![id] = Absent],
           mapped' = Unmapped(id), failed' \subseteq QsoIds, doomed' \subseteq QsoIds,
           UNCHANGED <<born, rx, heard, muted, watchdog, scanned, logged>>
    PROVE  EngineInv' /\ LogsOnce
<1>1. qsos \in [QsoIds -> Qso] /\ \A i \in QsoIds : Sound(qsos[i])
    BY DEF EngineInv, QsosSound
<1>2. Absent \in Qso /\ Absent.stage = "Absent"
    BY <1>1, FollowsSimply DEF Sound, Absent
<1>3. qsos' \in [QsoIds -> Qso] /\ \A i \in QsoIds : Follows(qsos[i], qsos'[i])
    BY <1>1, <1>2, FollowsSimply
<1>4. mapped \in [Stations -> SUBSET QsoIds]
    BY DEF EngineInv, RestOK
<1>5. RestOK'
    <2>1. mapped' \in [Stations -> SUBSET QsoIds]
        BY <1>4 DEF Unmapped
    <2> QED BY <2>1 DEF EngineInv, RestOK
<1>6. \A s \in Stations, i \in QsoIds :
          i \in mapped[s] /\ qsos'[i].stage # "Absent" => i \in mapped'[s]
    BY <1>1, <1>2 DEF Unmapped
<1>7. rx'.frame = rx.frame /\ rx'.ids \subseteq rx.ids
    OBVIOUS
<1> QED BY <1>3, <1>5, <1>6, <1>7, FollowStep

-----------------------------------------------------------------------------
(***************************************************************************)
(* Decodes, the watchdog, and time.                                        *)
(***************************************************************************)

\* Finding the QSOs of a decode: an open CQ is among them only while its sender
\* is in no exchange, and only one is.
LEMMA ProcessMessageStep ==
    ASSUME EngineInv, NEW f \in Frames, NEW near \in SUBSET QsoIds, ProcessMessage(f, near)
    PROVE  EngineInv' /\ LogsOnce
<1> DEFINE ids == FindQsos(f, near)
<1>1. /\ rx' = [frame |-> f, ids |-> ids]
      /\ heard' = [heard EXCEPT ![f.from] =
                      [frame  |-> IF @.copies + 1 < MaxCopies THEN f ELSE NoFrame,
                       copies |-> @.copies + 1]]
      /\ UNCHANGED <<qsos, born, mapped, muted, watchdog, doomed, scanned, logged, failed>>
    BY DEF ProcessMessage
<1>2. ids \subseteq near /\ \A id \in ids : IsRelevant(qsos[id], f)
    BY DEF FindQsos
<1>3. \A i, j \in ids : qsos[i].stage = "CallingCq" /\ qsos[j].stage = "CallingCq" => i = j
    <2> SUFFICES ASSUME NEW i \in ids, NEW j \in ids, qsos[i].stage = "CallingCq",
                        qsos[j].stage = "CallingCq"
                 PROVE  i = j
        OBVIOUS
    <2>1. ~(i < j) /\ ~(j < i)
        BY DEF FindQsos
    <2> HIDE DEF ids
    <2>2. i \in QsoIds /\ j \in QsoIds
        BY <1>2
    <2>3. i \in Nat /\ j \in Nat
        BY <2>2, Counting DEF QsoIds
    <2> QED BY <2>1, <2>3
<1>4. rx' \in [frame : Frames \cup {NoFrame}, ids : SUBSET QsoIds]
    BY <1>1, <1>2
<1>5. heard' \in [Stations -> [frame : Frames \cup {NoFrame}, copies : 0..MaxCopies]]
    <2>1. f.from \in Stations
        BY FrameFields
    <2>2. heard \in [Stations -> [frame : Frames \cup {NoFrame}, copies : 0..MaxCopies]]
        BY DEF EngineInv, RestOK
    <2>3. heard[f.from].copies = 0 \/ heard[f.from].copies < MaxCopies
        BY DEF ProcessMessage
    <2>4. heard[f.from].copies \in 0..MaxCopies
        BY <2>1, <2>2
    <2>5. heard[f.from].copies + 1 \in 0..MaxCopies
        BY <2>3, <2>4, EngineAssumption
    <2> QED BY <1>1, <2>1, <2>2, <2>5
<1> HIDE DEF ids
<1>6. RestOK'
    BY <1>1, <1>4, <1>5 DEF EngineInv, RestOK
<1>7. AnswerIsFree'
    <2>1. rx'.frame = f /\ rx'.ids = ids /\ qsos' = qsos
        BY <1>1
    <2>2. ASSUME f.kind \in Answering, NEW id \in ids, qsos[id].stage = "CallingCq"
          PROVE  \A j \in QsoIds : Active(qsos[j]) => qsos[j].partner # f.from
        <3>1. ~SenderIsBusy(f.from)
            BY <1>2, <2>2 DEF IsRelevant, Answering
        <3> QED BY <3>1 DEF SenderIsBusy
    <2> QED BY <1>3, <2>1, <2>2 DEF AnswerIsFree, Active
<1>8. QsosSound' /\ IsIndexed' /\ OnePerStationAndRole' /\ LogIsOver'
    BY <1>1 DEF EngineInv, QsosSound, IsIndexed, OnePerStationAndRole, LogIsOver, Active
<1>9. LogsOnce
    BY <1>1 DEF LogsOnce, EngineInv, RestOK
<1> QED BY <1>6, <1>7, <1>8, <1>9 DEF EngineInv

\* Applying a decode to one of its QSOs.  An open CQ that takes the sender as
\* its partner is the only QSO with it.
LEMMA ProcessMessageForQsoStep ==
    ASSUME EngineInv, NEW id \in QsoIds, ProcessMessageForQso(id)
    PROVE  EngineInv' /\ LogsOnce
<1> DEFINE q == qsos[id]
           f == rx.frame
           p == Applied(q, f)
<1>1. /\ id \in rx.ids /\ scanned' = FALSE
      /\ UNCHANGED <<born, mapped, heard, muted, watchdog, doomed, failed>>
    BY DEF ProcessMessageForQso
<1>2. /\ qsos \in [QsoIds -> Qso] /\ \A i \in QsoIds : Sound(qsos[i])
      /\ rx \in [frame : Frames \cup {NoFrame}, ids : SUBSET QsoIds]
      /\ logged \in [QsoIds -> Nat]
    BY DEF EngineInv, QsosSound, RestOK
<1>i. Idle \in [frame : Frames \cup {NoFrame}, ids : SUBSET QsoIds] /\ Idle.ids = {}
    BY DEF Idle
<1>3. f \in Frames
    BY <1>1 DEF EngineInv, AnswerIsFree
<1>4. CASE q.stage = "Absent"
    <2>1. rx' = Idle /\ qsos' = qsos /\ logged' = logged
        BY <1>4 DEF ProcessMessageForQso
    <2>2. RestOK'
        BY <1>1, <1>i, <2>1 DEF EngineInv, RestOK
    <2>3. \A i \in QsoIds : Follows(qsos[i], qsos'[i])
        BY <1>2, <2>1, FollowsSimply
    <2>4. qsos' \in [QsoIds -> Qso] /\ rx'.ids = {} /\ born' = born /\ mapped' = mapped
        BY <1>1, <1>2, <1>i, <2>1
    <2> QED BY <2>1, <2>2, <2>3, <2>4, FollowStep
<1>5. CASE q.stage # "Absent"
    <2>1. /\ rx' = IF rx.ids = {id} THEN Idle ELSE [rx EXCEPT !.ids = @ \ {id}]
          /\ qsos' = [qsos EXCEPT ![id] = p]
          /\ logged' = IF qsos'[id].stage = "Completed" /\ qsos[id].stage # "Completed"
                       THEN [logged EXCEPT ![id] = @ + 1] ELSE logged
        BY <1>5 DEF ProcessMessageForQso
    <2>2. /\ Sound(p) /\ p.cqer = q.cqer
          /\ q.stage \notin ActiveStages => p.stage = q.stage
          /\ q.stage \in ActiveStages => p.stage \in ActiveStages \cup {"Completed"}
          /\ q.stage # "CallingCq" => p.partner = q.partner /\ p.stage # "CallingCq"
          /\ q.stage = "CallingCq" =>
                 \/ p.stage = "CallingCq"
                 \/ /\ f.kind \in Answering
                    /\ p.stage = "WaitingForReport" /\ p.partner = f.from
        BY <1>2, <1>3, AppliedKeeps
    <2> HIDE DEF p
    <2>3. /\ qsos' \in [QsoIds -> Qso] /\ qsos'[id] = p
          /\ \A i \in QsoIds : i # id => qsos'[i] = qsos[i]
        BY <1>2, <2>1, <2>2 DEF Sound
    <2>4. logged' \in [QsoIds -> Nat]
        BY <1>2, <2>1
    <2>5. /\ rx' \in [frame : Frames \cup {NoFrame}, ids : SUBSET QsoIds]
          /\ rx'.ids = {} \/ (rx'.frame = rx.frame /\ rx'.ids = rx.ids \ {id})
        BY <1>2, <1>i, <2>1
    <2>6. RestOK'
        BY <1>1, <2>4, <2>5 DEF EngineInv, RestOK
    <2>7. \A i \in QsoIds : logged'[i] = logged[i]
              \/ (Active(qsos[i]) /\ qsos'[i].stage = "Completed")
        <3>1. p.stage = "Completed" /\ q.stage # "Completed" => Active(q)
            BY <2>2 DEF Active
        <3> QED BY <1>2, <2>1, <2>3, <3>1
    <2>8. CASE q.stage # "CallingCq" \/ p.stage = "CallingCq"
        <3>1. p.partner = q.partner
            BY <1>2, <2>2, <2>8 DEF Sound
        <3>2. Follows(q, p)
            BY <1>5, <2>2, <2>8, <3>1 DEF Follows
        <3>3. \A i \in QsoIds : Follows(qsos[i], qsos'[i])
            BY <1>2, <2>3, <3>2, FollowsSimply
        <3>4. rx'.ids = {} \/ (rx'.frame = rx.frame /\ rx'.ids \subseteq rx.ids)
            BY <2>5
        <3>5. born' = born /\ mapped' = mapped
            BY <1>1
        <3> QED BY <2>3, <2>6, <2>7, <3>3, <3>4, <3>5, FollowStep
    <2>9. CASE q.stage = "CallingCq" /\ p.stage # "CallingCq"
        <3>1. f.kind \in Answering /\ p.stage = "WaitingForReport" /\ p.partner = f.from
            BY <2>2, <2>9
        <3>2. /\ \A j \in QsoIds : Active(qsos[j]) => qsos[j].partner # f.from
              /\ \A j \in rx.ids : qsos[j].stage = "CallingCq" => j = id
            BY <1>1, <2>9, <3>1 DEF EngineInv, AnswerIsFree
        <3>3. Active(q) /\ q.cqer /\ p.cqer
            BY <1>2, <2>2, <2>9 DEF Active, ActiveStages, Sound
        <3>4. logged' = logged /\ mapped' = mapped /\ born' = born
            BY <1>1, <2>1, <2>3, <3>1
        <3>5. QsosSound'
            BY <1>2, <2>2, <2>3 DEF QsosSound
        <3>6. IsIndexed'
            BY <2>3, <3>3, <3>4 DEF EngineInv, IsIndexed
        <3>7. OnePerStationAndRole'
            BY <2>3, <3>1, <3>2 DEF EngineInv, OnePerStationAndRole, Active
        <3>8. AnswerIsFree'
            <4>1. rx.ids \subseteq QsoIds
                BY <1>2
            <4>2. \A j \in rx'.ids : qsos'[j].stage # "CallingCq"
                BY <2>3, <2>5, <3>2, <4>1
            <4>3. rx'.ids # {} => rx'.frame \in Frames
                BY <1>3, <2>5
            <4> QED BY <4>2, <4>3 DEF AnswerIsFree
        <3>9. LogIsOver'
            <4>1. id <= born /\ ~(logged[id] > 0)
                <5>1. ~(id > born) /\ ~(logged[id] > 0)
                    BY <1>5, <3>3 DEF EngineInv, LogIsOver
                <5>2. id \in Int /\ born \in Int
                    BY DEF EngineInv, RestOK, QsoIds
                <5> QED BY <5>1, <5>2
            <4>2. ~(id > born)
                BY <4>1 DEF EngineInv, RestOK, QsoIds
            <4> QED BY <2>3, <3>4, <4>1, <4>2 DEF EngineInv, LogIsOver, Active
        <3>10. LogsOnce
            BY <1>2, <3>4 DEF LogsOnce
        <3> QED BY <2>6, <3>5, <3>6, <3>7, <3>8, <3>9, <3>10 DEF EngineInv
    <2> QED BY <2>8, <2>9
<1> QED BY <1>4, <1>5

\* What the keep-call loop repeats is a frame of ours, and while reports are
\* exchanged it carries the report we gave.
LEMMA RearmedFollows ==
    ASSUME NEW q, Sound(q)
    PROVE  Rearmed(q) \in Qso /\ Follows(q, Rearmed(q))
<1> DEFINE frame == KeepCallFrame(q, q.manual)
           base  == [q EXCEPT !.calls = OneMore(@), !.sinceCall = 0, !.sinceAttempt = 0]
           p     == Emit(base, frame)
<1>1. q \in Qso
    BY DEF Sound
<1>2. frame \in OurFrames /\ (frame.report # NoReport => frame.report = q.ours)
    <2>1. \/ frame = Sends("Cq")
          \/ frame = Sends("CqResponse")
          \/ frame = Nothing
          \/ q.stage \in Exchanging /\ frame = SendsReport("SignalReport", q.ours)
          \/ q.stage \in Exchanging /\ frame = SendsReport("ReportAck", q.ours)
        BY DEF KeepCallFrame, Exchanging
    <2> HIDE DEF frame
    <2>2. CASE frame \in {Sends("Cq"), Sends("CqResponse"), Nothing}
        BY <2>2, OurFramesAre DEF Sends, Nothing
    <2>3. CASE q.stage \in Exchanging /\ frame = SendsReport("SignalReport", q.ours)
        <3>1. q.ours \in Reports /\ "SignalReport" \in Reporting
            BY <2>3 DEF Sound, Reporting
        <3> QED BY <2>3, <3>1, OurFramesAre DEF SendsReport
    <2>4. CASE q.stage \in Exchanging /\ frame = SendsReport("ReportAck", q.ours)
        <3>1. q.ours \in Reports /\ "ReportAck" \in Reporting
            BY <2>4 DEF Sound, Reporting
        <3> QED BY <2>4, <3>1, OurFramesAre DEF SendsReport
    <2> QED BY <2>1, <2>2, <2>3, <2>4
<1>3. OneMore(q.calls) \in 0..CallCap /\ 0 \in Ages
    BY <1>1, Counting DEF Qso
<1>4. /\ base \in Qso /\ base.stage = q.stage /\ base.partner = q.partner
      /\ base.cqer = q.cqer /\ base.ours = q.ours /\ base.aired = q.aired
    BY <1>1, <1>3 DEF Qso
<1>5. Rearmed(q) = p
    BY DEF Rearmed
<1> HIDE DEF frame, base
<1>6. /\ p \in Qso /\ p.stage = q.stage /\ p.partner = q.partner /\ p.cqer = q.cqer
      /\ p.ours = q.ours
      /\ p.aired = IF frame.report = NoReport THEN q.aired ELSE frame.report
    BY <1>2, <1>4, EmitKeeps
<1> HIDE DEF p
<1>7. Sound(p)
    BY <1>2, <1>6 DEF Sound
<1>8. Follows(q, p)
    BY <1>6, <1>7 DEF Follows
<1> QED BY <1>5, <1>6, <1>8

\* The keep-call pass repeats frames and moves no exchange.
LEMMA RearmStep ==
    ASSUME EngineInv, RearmManualCalls
    PROVE  EngineInv' /\ LogsOnce
<1>1. /\ watchdog' = "rearmed"
      /\ qsos' = [id \in QsoIds |->
                     IF IsRearmed(qsos[id]) THEN Rearmed(qsos[id]) ELSE qsos[id]]
      /\ UNCHANGED <<born, mapped, rx, heard, muted, doomed, scanned, logged, failed>>
    BY DEF RearmManualCalls
<1>2. qsos \in [QsoIds -> Qso] /\ \A id \in QsoIds : Sound(qsos[id])
    BY DEF EngineInv, QsosSound
<1>3. qsos' \in [QsoIds -> Qso] /\ \A id \in QsoIds : Follows(qsos[id], qsos'[id])
    BY <1>1, <1>2, RearmedFollows, FollowsSimply
<1>4. RestOK'
    BY <1>1 DEF EngineInv, RestOK
<1>5. /\ rx'.frame = rx.frame /\ rx'.ids \subseteq rx.ids /\ logged' = logged
      /\ mapped' = mapped /\ born' = born
    BY <1>1
<1> QED BY <1>3, <1>4, <1>5, FollowStep

\* The scan takes back reprieves and retires the first of what timed out.
LEMMA CheckTimeoutsStep ==
    ASSUME EngineInv, CheckTimeouts
    PROVE  EngineInv' /\ LogsOnce
<1> DEFINE due   == {id \in QsoIds : IsTimedOut(qsos[id])}
           swept == [id \in QsoIds |->
                        IF KeepCalling(qsos[id]) /\ ~IsRepetitive(qsos[id])
                        THEN [qsos[id] EXCEPT !.progressed = FALSE]
                        ELSE qsos[id]]
<1>1. /\ watchdog' = "idle" /\ scanned' = TRUE
      /\ UNCHANGED <<born, rx, heard, muted, logged>>
      /\ \/ qsos' = swept /\ UNCHANGED <<mapped, doomed, failed>>
         \/ \E first \in due :
               /\ qsos' = Retired(swept, first)
               /\ mapped' = Unmapped(first)
               /\ failed' = failed \cup {first}
               /\ doomed' = due \ {first}
    BY DEF CheckTimeouts
<1>2. /\ qsos \in [QsoIds -> Qso] /\ \A id \in QsoIds : Sound(qsos[id])
      /\ mapped \in [Stations -> SUBSET QsoIds]
    BY DEF EngineInv, QsosSound, RestOK
<1>3. swept \in [QsoIds -> Qso] /\ \A id \in QsoIds : Follows(qsos[id], swept[id])
    <2>1. ASSUME NEW id \in QsoIds PROVE swept[id] \in Qso /\ Follows(qsos[id], swept[id])
        <3> DEFINE q == qsos[id]
                   p == [q EXCEPT !.progressed = FALSE]
        <3>1. q \in Qso /\ Sound(q)
            BY <1>2, <2>1
        <3>2. swept[id] = p \/ swept[id] = q
            BY <2>1
        <3> HIDE DEF q, swept
        <3>3. /\ p \in Qso /\ p.stage = q.stage /\ p.partner = q.partner /\ p.cqer = q.cqer
              /\ p.ours = q.ours /\ p.aired = q.aired
            BY <3>1 DEF Qso
        <3> HIDE DEF p
        <3>4. Follows(q, p) /\ Follows(q, q)
            BY <3>1, <3>3, FollowsSimply
        <3> QED BY <3>1, <3>2, <3>3, <3>4 DEF q
    <2>2. DOMAIN swept = QsoIds /\ swept = [id \in QsoIds |-> swept[id]]
        OBVIOUS
    <2> HIDE DEF swept
    <2> QED BY <2>1, <2>2
<1>4. due \subseteq QsoIds
    OBVIOUS
<1> HIDE DEF due, swept
<1>5. /\ rx'.frame = rx.frame /\ rx'.ids \subseteq rx.ids /\ logged' = logged /\ born' = born
    BY <1>1
<1>6. CASE qsos' = swept /\ UNCHANGED <<mapped, doomed, failed>>
    <2>1. RestOK'
        BY <1>1, <1>6 DEF EngineInv, RestOK
    <2> QED BY <1>3, <1>5, <1>6, <2>1, FollowStep
<1>7. ASSUME NEW first \in due, qsos' = Retired(swept, first), mapped' = Unmapped(first),
             failed' = failed \cup {first}, doomed' = due \ {first}
      PROVE  EngineInv' /\ LogsOnce
    <2>1. Absent \in Qso /\ Absent.stage = "Absent" /\ first \in QsoIds
        BY <1>2, <1>4, FollowsSimply DEF Sound, Absent
    <2>2. /\ qsos' \in [QsoIds -> Qso] /\ qsos'[first] = Absent
          /\ \A id \in QsoIds : id # first => qsos'[id] = swept[id]
        BY <1>3, <1>7, <2>1 DEF Retired
    <2>3. \A id \in QsoIds : Follows(qsos[id], qsos'[id])
        BY <1>2, <1>3, <2>2, FollowsSimply
    <2>4. RestOK'
        <3>1. mapped' \in [Stations -> SUBSET QsoIds]
            BY <1>2, <1>7 DEF Unmapped
        <3>2. failed' \subseteq QsoIds /\ doomed' \subseteq QsoIds
            BY <1>4, <1>7, <2>1 DEF EngineInv, RestOK
        <3> QED BY <1>1, <3>1, <3>2 DEF EngineInv, RestOK
    <2>5. \A s \in Stations, id \in QsoIds :
              id \in mapped[s] /\ qsos'[id].stage # "Absent" => id \in mapped'[s]
        BY <1>7, <2>1, <2>2 DEF Unmapped
    <2> QED BY <1>5, <2>2, <2>3, <2>4, <2>5, FollowStep
<1> QED BY <1>1, <1>6, <1>7

\* A slot in which nothing was heard yet.
LEMMA SilenceIsTyped ==
    [s \in Stations |-> [frame |-> NoFrame, copies |-> 0]]
        \in [Stations -> [frame : Frames \cup {NoFrame}, copies : 0..MaxCopies]]
<1> DEFINE silence == [frame |-> NoFrame, copies |-> 0]
<1>1. 0 \in 0..MaxCopies /\ NoFrame \in Frames \cup {NoFrame}
    BY Counting
<1>2. silence \in [frame : Frames \cup {NoFrame}, copies : 0..MaxCopies]
    BY <1>1, Zenon
<1> HIDE DEF silence
<1>3. [s \in Stations |-> silence]
          \in [Stations -> [frame : Frames \cup {NoFrame}, copies : 0..MaxCopies]]
    BY <1>2, Zenon
<1> QED BY <1>3 DEF silence

\* A slot passes: every timestamp ages.
LEMMA TickStep ==
    ASSUME EngineInv, Tick
    PROVE  EngineInv' /\ LogsOnce
<1>1. /\ scanned' = FALSE
      /\ heard' = [s \in Stations |-> [frame |-> NoFrame, copies |-> 0]]
      /\ qsos' = [id \in QsoIds |->
                     IF qsos[id].stage = "Absent" THEN Absent
                     ELSE [qsos[id] EXCEPT !.inStage = Older(@, AgeCap),
                                           !.sinceFirst = Older(@, Watchdog),
                                           !.sinceCall = Older(@, 1),
                                           !.sinceAttempt = Older(@, Retention + 1)]]
      /\ UNCHANGED <<born, mapped, rx, muted, watchdog, doomed, logged, failed>>
    BY DEF Tick
<1>2. qsos \in [QsoIds -> Qso] /\ \A id \in QsoIds : Sound(qsos[id])
    BY DEF EngineInv, QsosSound
<1>3. ASSUME NEW id \in QsoIds PROVE qsos'[id] \in Qso /\ Follows(qsos[id], qsos'[id])
    <2> DEFINE q == qsos[id]
               p == [q EXCEPT !.inStage = Older(@, AgeCap),
                              !.sinceFirst = Older(@, Watchdog),
                              !.sinceCall = Older(@, 1),
                              !.sinceAttempt = Older(@, Retention + 1)]
    <2>1. q \in Qso /\ Sound(q)
        BY <1>2, <1>3
    <2>2. qsos'[id] = Absent \/ qsos'[id] = p
        BY <1>1, <1>3
    <2> HIDE DEF q
    <2>3. /\ Older(q.inStage, AgeCap) \in Ages /\ Older(q.sinceFirst, Watchdog) \in Ages
          /\ Older(q.sinceCall, 1) \in Ages
          /\ Older(q.sinceAttempt, Retention + 1) \in Ages
        <3>1. {AgeCap, Watchdog, 1, Retention + 1} \subseteq Ages
            BY Counting DEF Ages
        <3>2. {q.inStage, q.sinceFirst, q.sinceCall, q.sinceAttempt} \subseteq Ages
            BY <2>1 DEF Qso
        <3> QED BY <3>1, <3>2, Counting
    <2>4. /\ p \in Qso /\ p.stage = q.stage /\ p.partner = q.partner /\ p.cqer = q.cqer
          /\ p.ours = q.ours /\ p.aired = q.aired
        BY <2>1, <2>3 DEF Qso
    <2> HIDE DEF p
    <2>5. Follows(q, p) /\ Follows(q, Absent) /\ Absent \in Qso
        BY <2>1, <2>4, FollowsSimply DEF Sound
    <2> QED BY <2>2, <2>4, <2>5 DEF q
<1>4. qsos' \in [QsoIds -> Qso]
    <2>1. DOMAIN qsos' = QsoIds /\ qsos' = [id \in QsoIds |-> qsos'[id]]
        BY <1>1
    <2> QED BY <1>3, <2>1
<1>5. RestOK'
    <2>1. heard' \in [Stations -> [frame : Frames \cup {NoFrame}, copies : 0..MaxCopies]]
        BY <1>1, SilenceIsTyped
    <2> QED BY <1>1, <2>1 DEF EngineInv, RestOK
<1>6. /\ rx'.frame = rx.frame /\ rx'.ids \subseteq rx.ids /\ logged' = logged
      /\ mapped' = mapped /\ born' = born
    BY <1>1
<1> QED BY <1>3, <1>4, <1>5, <1>6, FollowStep

-----------------------------------------------------------------------------
(***************************************************************************)
(* The invariant.                                                          *)
(***************************************************************************)

\* The engine starts with an empty map.
LEMMA EngineInit == Init => EngineInv
<1> SUFFICES ASSUME Init PROVE EngineInv
    OBVIOUS
<1>1. Absent \in Qso /\ Absent.stage = "Absent"
    <2>1. Nothing \in OurFrames /\ 0 \in 0..CallCap /\ 0 \in Ages
        BY OurFramesAre, Counting DEF Ages
    <2> QED BY <2>1 DEF Absent, Qso
<1>2. Sound(Absent)
    BY <1>1 DEF Sound, Exchanging
<1>3. qsos \in [QsoIds -> Qso] /\ \A id \in QsoIds : qsos[id] = Absent
    BY <1>1 DEF Init
<1>4. rx \in [frame : Frames \cup {NoFrame}, ids : SUBSET QsoIds] /\ rx.ids = {}
    BY DEF Init, Idle
<1>5. RestOK
    <2>1. born \in 0..MaxQsos
        BY Counting DEF Init
    <2>2. mapped \in [Stations -> SUBSET QsoIds] /\ logged \in [QsoIds -> Nat]
        BY DEF Init
    <2>3. heard \in [Stations -> [frame : Frames \cup {NoFrame}, copies : 0..MaxCopies]]
        BY SilenceIsTyped DEF Init
    <2>4. /\ watchdog \in {"idle", "rearmed"} /\ doomed \subseteq QsoIds
          /\ failed \subseteq QsoIds /\ muted \in BOOLEAN /\ scanned \in BOOLEAN
        BY DEF Init
    <2> QED BY <1>4, <2>1, <2>2, <2>3, <2>4 DEF RestOK
<1>6. QsosSound
    BY <1>2, <1>3 DEF QsosSound
<1>7. IsIndexed /\ OnePerStationAndRole
    BY <1>1, <1>3 DEF IsIndexed, OnePerStationAndRole, Active, ActiveStages
<1>8. AnswerIsFree
    BY <1>4 DEF AnswerIsFree
<1>9. LogIsOver
    BY <1>1, <1>3 DEF LogIsOver, Active, ActiveStages, Init
<1> QED BY <1>5, <1>6, <1>7, <1>8, <1>9 DEF EngineInv

\* Every step keeps the invariant and logs a contact once.
LEMMA EngineStep ==
    ASSUME EngineInv, Next
    PROVE  EngineInv' /\ LogsOnce
<1>1. ASSUME StartCq(FALSE) \/ StartCq(TRUE) PROVE EngineInv' /\ LogsOnce
    <2>1. \E manual \in BOOLEAN : StartCq(manual)
        BY <1>1, Zenon
    <2> QED BY <2>1, StartCqStep
<1>2. ASSUME NEW s \in Stations, RespondToCq(s, FALSE) \/ RespondToCq(s, TRUE)
      PROVE  EngineInv' /\ LogsOnce
    <2>1. \E manual \in BOOLEAN : RespondToCq(s, manual)
        BY <1>2, Zenon
    <2> QED BY <2>1, RespondToCqStep
<1>3. ASSUME NEW s \in Stations, NEW step \in Steps, NEW ours \in Reports,
             NEW theirs \in Reports, RespondToCaller(s, step, ours, theirs)
      PROVE  EngineInv' /\ LogsOnce
    BY <1>3, RespondToCallerStep
<1>4. ASSUME NEW id \in QsoIds, ResendLastTx(id) PROVE EngineInv' /\ LogsOnce
    BY <1>4, ResendStep DEF ResendLastTx
<1>5. ASSUME NEW id \in QsoIds, CancelQso(id) PROVE EngineInv' /\ LogsOnce
    <2>1. failed' \subseteq QsoIds /\ doomed' \subseteq QsoIds
        BY <1>5 DEF CancelQso, EngineInv, RestOK
    <2> QED BY <1>5, <2>1, DropStep DEF CancelQso
<1>6. ASSUME NEW f \in Frames, NEW near \in SUBSET QsoIds, ProcessMessage(f, near)
      PROVE  EngineInv' /\ LogsOnce
    BY <1>6, ProcessMessageStep
<1>7. ASSUME NEW id \in QsoIds, ProcessMessageForQso(id) PROVE EngineInv' /\ LogsOnce
    BY <1>7, ProcessMessageForQsoStep
<1>8. ASSUME NEW id \in QsoIds, RetireTimedOut(id) PROVE EngineInv' /\ LogsOnce
    <2>1. failed' \subseteq QsoIds /\ doomed' \subseteq QsoIds
        BY <1>8 DEF RetireTimedOut, EngineInv, RestOK
    <2> QED BY <1>8, <2>1, DropStep DEF RetireTimedOut, Retired
<1>9. ASSUME NEW id \in QsoIds, CleanupCompleted(id) PROVE EngineInv' /\ LogsOnce
    <2>1. failed' \subseteq QsoIds /\ doomed' \subseteq QsoIds
        BY <1>9 DEF CleanupCompleted, EngineInv, RestOK
    <2> QED BY <1>9, <2>1, DropStep DEF CleanupCompleted
<1>10. ASSUME SetMuted PROVE EngineInv' /\ LogsOnce
    <2>1. muted' \in BOOLEAN
        BY <1>10 DEF SetMuted
    <2>2. UNCHANGED <<qsos, born, mapped, rx, heard, watchdog, doomed, scanned, logged, failed>>
        BY <1>10 DEF SetMuted
    <2>3. RestOK'
        BY <2>1, <2>2 DEF EngineInv, RestOK
    <2>4. QsosSound' /\ IsIndexed' /\ OnePerStationAndRole' /\ AnswerIsFree' /\ LogIsOver'
        BY <2>2 DEF EngineInv, QsosSound, IsIndexed, OnePerStationAndRole, AnswerIsFree,
                    LogIsOver, Active
    <2>5. LogsOnce
        BY <2>2 DEF LogsOnce, EngineInv, RestOK
    <2> QED BY <2>3, <2>4, <2>5 DEF EngineInv
<1>11. CASE Command
    BY <1>11, <1>1, <1>2, <1>3, <1>4, <1>5, Zenon DEF Command
<1>12. CASE Decode
    BY <1>12, <1>6, <1>7 DEF Decode
<1>13. CASE WatchdogTask
    BY <1>13, <1>8, RearmStep, CheckTimeoutsStep DEF WatchdogTask
<1> QED BY <1>9, <1>10, <1>11, <1>12, <1>13, TickStep DEF Next

\* A step that changes nothing keeps the invariant.
LEMMA EngineStutter ==
    ASSUME EngineInv, UNCHANGED vars
    PROVE  EngineInv'
<1>1. /\ RestOK' /\ QsosSound' /\ IsIndexed' /\ OnePerStationAndRole' /\ AnswerIsFree'
      /\ LogIsOver'
    BY DEF EngineInv, RestOK, QsosSound, IsIndexed, OnePerStationAndRole, AnswerIsFree,
           LogIsOver, Active, vars
<1> QED BY <1>1 DEF EngineInv

\* The invariant holds throughout.
LEMMA EngineInvariance == Spec => []EngineInv
<1>1. EngineInv /\ [Next]_vars => EngineInv'
    BY EngineStep, EngineStutter
<1> QED BY <1>1, EngineInit, PTL DEF Spec

\* The state of the QSO manager stays well typed: the QSO map, the index, the
\* decode being applied and the watchdog's list.
THEOREM EngineTypeCorrect == Spec => []TypeOK
<1>1. EngineInv => TypeOK
    <2> SUFFICES ASSUME EngineInv PROVE TypeOK
        OBVIOUS
    <2>1. rx.frame \in Frames \cup {NoFrame} /\ rx.ids \subseteq QsoIds
        BY DEF EngineInv, RestOK
    <2>2. \A s \in Stations : /\ heard[s].frame \in Frames \cup {NoFrame}
                              /\ heard[s].copies \in 0..MaxCopies
        BY DEF EngineInv, RestOK
    <2>3. {muted, scanned} \subseteq BOOLEAN
        BY DEF EngineInv, RestOK
    <2> QED BY <2>1, <2>2, <2>3 DEF EngineInv, RestOK, QsosSound, TypeOK
<1> QED BY <1>1, EngineInvariance, PTL

\* While reports are exchanged, the report held for the log is the one that
\* went out last (process_message_for_qso, rearm_manual_calls_at,
\* advance_existing_qso_to_step).
THEOREM LoggedReportIsSent == Spec => []ReportIsStable
<1>1. EngineInv => ReportIsStable
    BY DEF EngineInv, QsosSound, Sound, Exchanging, ReportIsStable
<1> QED BY <1>1, EngineInvariance, PTL

\* One station is worked in at most one QSO per role: superseding on opening,
\* and answers to several open CQs with the watchdog in between, never leave
\* two (supersede_active_qsos_for, find_qsos_for_message).
THEOREM OneQsoPerRole == Spec => []OnePerStationAndRole
<1>1. EngineInv => OnePerStationAndRole
    BY DEF EngineInv
<1> QED BY <1>1, EngineInvariance, PTL

\* A contact reaches the log once, and a closing step within the rework grace
\* opens no second QSO to be logged (find_recently_completed_manual_qso_for).
THEOREM ContactIsLoggedOnce == Spec => LoggedOnce
<1>1. EngineInv /\ [Next]_vars => [LogsOnce]_vars
    BY EngineStep
<1>2. EngineInv /\ [Next]_vars =>
          [\A id \in QsoIds :
              logged'[id] > logged[id] =>
                  /\ logged[id] = 0
                  /\ qsos[id].stage = "Absent" =>
                         ~\E other \in QsoIds :
                             /\ qsos[other].partner = qsos'[id].partner
                             /\ qsos[other].stage = "Completed"
                             /\ qsos[other].manual /\ ~qsos[other].cqer
                             /\ qsos[other].inStage <= ReworkGrace]_vars
    BY <1>1 DEF LogsOnce
<1> QED BY <1>2, EngineInvariance, PTL DEF Spec, LoggedOnce

=============================================================================
