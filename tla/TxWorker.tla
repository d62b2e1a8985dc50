------------------------------ MODULE TxWorker ------------------------------
(***************************************************************************)
(* The transmit worker (pancetta/src/coordinator/tx.rs): one task that     *)
(* takes transmit requests from its inbox, folds a backlog into a bundle,  *)
(* waits for the slot, passes the gates, keys the rig, plays the audio and *)
(* reports to the QSO engine what became of every attempt.  While a frame  *)
(* is on the air the worker polls for an abort, a remote disarm and a      *)
(* newer request that supersedes the frame.                                *)
(*                                                                         *)
(* An attempt is one emission of the QSO engine (a TxAttemptId).  Texts,   *)
(* offsets and slot times are left out: a gate other than the TX policy    *)
(* and the remote arm (band plan, ended QSO, parity, rig state, lateness,  *)
(* encode error) refuses by a free choice, and so does a full channel.     *)
(* The key-time pivot, frames without a QSO and the tune carrier are not   *)
(* modelled.                                                               *)
(***************************************************************************)
EXTENDS Integers, Sequences, FiniteSets, SequencesExt

CONSTANTS
    Attempts,       \* how many attempts the QSO engine makes
    Client,         \* remote clients
    Local,          \* stands for a frame of the station's own operator
    QsoOf,          \* the QSO of each attempt
    ClientOf,       \* the client of each attempt, or Local
    Caps            \* values of effective_max_concurrent_qsos

Attempt == 1..Attempts

ASSUME TxWorkerAssumption ==
    /\ Attempts \in Nat
    /\ Local \notin Client
    /\ DOMAIN QsoOf = Attempt
    /\ ClientOf \in [Attempt -> Client \cup {Local}]
    /\ Caps \subseteq Nat \ {0} /\ Caps # {}

VARIABLES
    next,           \* the next attempt of the QSO engine
    inbox,          \* TxInbox: requests put back in front, then the channel
    pc,             \* where the worker is
    cur,            \* the request in hand
    incoming,       \* the request that superseded it
    guard,          \* the frame's PttGuard is armed
    audio,          \* the frame's audio was taken by the audio channel
    abort,          \* abort_current_tx
    muted,          \* the TX policy is Disabled
    halting,        \* TxHaltHandles::halt is between its stores
    cap,            \* effective_max_concurrent_qsos
    armed,          \* the client the arm permits, or Local for none
    ptt,            \* the last PTT command the Hamlib channel took
    drops,          \* guard-drop tasks that still owe a PTT-off
    report,         \* what the QSO engine was told of each attempt
    \* History.
    keyed,          \* attempts whose PTT-on the Hamlib channel took
    quiet,          \* attempts dropped where the design reports nothing
    abandoned,      \* attempts a folded supersede left behind
    offLost,        \* a PTT-off for the last PTT-on was lost or given up
    doomed          \* attempts in hand when a halt completed

work == <<inbox, pc, cur, incoming, guard, audio, abort, ptt, drops, report,
          keyed, quiet, abandoned, offLost>>
env  == <<next, muted, halting, cap, armed, doomed>>
vars == <<next, inbox, pc, cur, incoming, guard, audio, abort, muted, halting,
          cap, armed, ptt, drops, report, keyed, quiet, abandoned, offLost, doomed>>

-----------------------------------------------------------------------------
(* Requests and reports.                                                   *)

Single(a) == [multi |-> FALSE, items |-> {a}, client |-> ClientOf[a]]

Nothing == [multi |-> FALSE, items |-> {}, client |-> Local]

\* fold_bundle_identity: remote if any item is.
Fold(items) ==
    LET remote == {ClientOf[a] : a \in items} \ {Local}
    IN  IF remote = {} THEN Local ELSE CHOOSE c \in remote : TRUE

Permitted(c) == c = Local \/ c = armed

SameQso(a, b) == QsoOf[a] = QsoOf[b]

Told(s, verdict) ==
    [a \in Attempt |->
        IF a \notin s THEN report[a]
        ELSE IF report[a] = "none" THEN verdict ELSE "twice"]

\* The frame in hand is given up: every item is reported as not sent.
Failed == Told(cur.items, "failed")

Idle == pc' = "idle" /\ cur' = Nothing /\ incoming' = Nothing

\* A PTT-off that is dropped when the Hamlib channel is full (send_message).
PlainOff ==
    \/ ptt' = "off" /\ UNCHANGED offLost
    \/ ptt' = ptt /\ offLost' = TRUE

\* An armed PttGuard goes out of scope: a task of its own sends PTT-off.
GuardDrop == guard' = FALSE /\ drops' = drops + 1

Disarmed == guard' = FALSE /\ UNCHANGED drops

-----------------------------------------------------------------------------
(* The head of the loop and the backlog.                                   *)

\* The loop clears the abort flag and takes a request, if there is one.
Take ==
    /\ pc = "idle"
    /\ abort' = FALSE
    /\ \/ /\ inbox # <<>>
          /\ cur' = Head(inbox) /\ inbox' = Tail(inbox)
          /\ pc' = IF Head(inbox).multi THEN "admit" ELSE "collect"
       \/ /\ inbox = <<>> /\ abort
          /\ UNCHANGED <<cur, inbox, pc>>
    /\ UNCHANGED <<incoming, guard, audio, ptt, drops, report, keyed, quiet,
                   abandoned, offLost>>

\* An abort while the worker collects.
CollectAborted ==
    /\ pc = "collect" /\ abort
    /\ report' = Failed /\ Idle
    /\ UNCHANGED <<inbox, guard, audio, abort, ptt, drops, keyed, quiet,
                   abandoned, offLost>>

\* The single requests at the head of the inbox are drained with the one in
\* hand, up to the first bundle.
Drained ==
    LET bundle == {i \in DOMAIN inbox : inbox[i].multi}
    IN  IF bundle = {} THEN inbox ELSE SubSeq(inbox, 1, Min(bundle) - 1)

Items(reqs) == UNION {reqs[i].items : i \in DOMAIN reqs}

\* The newest request of each QSO wins; `s' lists the requests oldest first.
Newest(s, admitted) ==
    {a \in admitted :
        ~ \E i, j \in DOMAIN s : /\ i < j
                                 /\ s[i].items = {a}
                                 /\ \E b \in s[j].items \cap admitted : SameQso(a, b)}

Request(items) ==
    IF Cardinality(items) = 1
    THEN Single(CHOOSE a \in items : TRUE)
    ELSE [multi |-> TRUE, items |-> items, client |-> Fold(items)]

\* coalesce_backlog_into.  Requests of a client that is not permitted are
\* reported; of the others the newest of each QSO is kept, less those a
\* parity or offset conflict or an ended QSO excludes, and what is over the
\* cap is reported.
Coalesce ==
    /\ pc = "collect"
    /\ LET s == <<cur>> \o Drained
           admitted == {a \in Items(s) : Permitted(ClientOf[a])}
           newest == IF Cardinality(admitted) = 1 THEN admitted
                     ELSE Newest(s, admitted)
       IN  \E excluded \in IF Cardinality(admitted) = 1 THEN {{}} ELSE SUBSET newest :
           \E kept \in SUBSET (newest \ excluded) :
              /\ \/ kept = newest \ excluded /\ Cardinality(kept) <= cap
                 \/ Cardinality(kept) = cap
              /\ report' = Told((Items(s) \ admitted)
                                   \cup (newest \ (excluded \cup kept)), "failed")
              /\ quiet' = quiet \cup (admitted \ newest) \cup excluded
              /\ cur' = IF kept = {} THEN Nothing ELSE Request(kept)
              /\ pc' = IF kept = {} THEN "idle" ELSE "admit"
    /\ inbox' = SubSeq(inbox, Len(Drained) + 1, Len(inbox))
    /\ UNCHANGED <<incoming, guard, audio, abort, ptt, drops, keyed, abandoned,
                   offLost>>

-----------------------------------------------------------------------------
(* The gates before key-down.                                              *)

\* Items may be refused one by one; a muted station or a client that is not
\* permitted refuses them all, and so does any gate of a single frame.
Refusable ==
    {s \in SUBSET cur.items :
        muted \/ ~Permitted(cur.client) => s = cur.items}

\* The first gates, and the encoder.
Admit ==
    /\ pc = "admit"
    /\ \E s \in Refusable :
          /\ report' = Told(s, "failed")
          /\ cur' = IF s = cur.items THEN Nothing ELSE [cur EXCEPT !.items = @ \ s]
          /\ pc' = IF s = cur.items THEN "idle" ELSE "wait"
    /\ UNCHANGED <<inbox, incoming, guard, audio, abort, ptt, drops, keyed,
                   quiet, abandoned, offLost>>

\* wait_for_ptt_instant: an abort, or a wall clock that jumped.
WaitFails ==
    /\ pc = "wait"
    /\ report' = Failed /\ Idle
    /\ UNCHANGED <<inbox, guard, audio, abort, ptt, drops, keyed, quiet,
                   abandoned, offLost>>

\* The slot is reached: the gates again, then PttGuard::new.
Reached ==
    /\ pc = "wait" /\ ~abort
    /\ \E s \in Refusable :
          /\ report' = Told(s, "failed")
          /\ cur' = IF s = cur.items THEN Nothing ELSE [cur EXCEPT !.items = @ \ s]
          /\ pc' = IF s = cur.items THEN "idle" ELSE "gate"
          /\ guard' = (s # cur.items)
    /\ UNCHANGED <<inbox, incoming, audio, abort, ptt, drops, keyed, quiet,
                   abandoned, offLost>>

\* The last gate before key-down: relocated, ended, muted, off band, late.
Gate ==
    /\ pc = "gate"
    /\ \/ ~muted /\ pc' = "key" /\ UNCHANGED <<cur, incoming, guard, report>>
       \/ report' = Failed /\ Idle /\ guard' = FALSE
    /\ UNCHANGED <<inbox, audio, abort, ptt, drops, keyed, quiet, abandoned,
                   offLost>>

\* Mutant: the item list is cleared before the denied bundle is reported.
KeyDeniedQuietly == guard' = FALSE /\ UNCHANGED report /\ Idle

KeyDenied == guard' = FALSE /\ report' = Failed /\ Idle

\* send_ptt_command: authorisation and enqueue are one step.  A PTT-on that
\* the channel drops is logged and the frame goes on.
Key ==
    /\ pc = "key"
    /\ \/ /\ Permitted(cur.client)
          /\ ptt' = "on" /\ keyed' = keyed \cup cur.items /\ offLost' = FALSE
          /\ pc' = "lead" /\ UNCHANGED <<cur, incoming, guard, report>>
       \/ /\ Permitted(cur.client)
          /\ pc' = "lead" /\ UNCHANGED <<cur, incoming, guard, report, ptt, keyed, offLost>>
       \/ KeyDenied /\ UNCHANGED <<ptt, keyed, offLost>>
    /\ UNCHANGED <<inbox, audio, abort, drops, quiet, abandoned>>

-----------------------------------------------------------------------------
(* On the air.  interruptible_sleep_or_supersede polls, in this order, the *)
(* abort flag, the arm of a remote frame and the inbox.                    *)

OnAir == pc \in {"lead", "playing"}

\* classify_incoming_during_tx: a request for a QSO of the frame in hand.
Supersedes(r) == \E a \in r.items, b \in cur.items : SameQso(a, b)

Superseding == {i \in DOMAIN inbox : Supersedes(inbox[i])}

\* Mutant: the poll of the playback does not look at the abort flag.
CalmUnlessDisarmed == Permitted(cur.client)

Calm == ~abort /\ Permitted(cur.client)

\* The clock went back while the rig was keyed.
HoldTooLong ==
    /\ pc = "lead"
    /\ PlainOff /\ Disarmed
    /\ report' = Failed /\ Idle
    /\ UNCHANGED <<inbox, audio, abort, keyed, quiet, abandoned>>

Aborted ==
    /\ OnAir /\ abort
    /\ GuardDrop
    /\ report' = Failed /\ Idle
    /\ UNCHANGED <<inbox, audio, abort, ptt, keyed, quiet, abandoned, offLost>>

\* The arm has lapsed: while waiting, or when the audio is about to go.
DisarmedOnAir ==
    /\ OnAir /\ ~Permitted(cur.client)
    /\ ~abort \/ pc = "lead"
    /\ pc' = "release"
    /\ UNCHANGED <<inbox, cur, incoming, guard, audio, abort, ptt, drops, report,
                   keyed, quiet, abandoned, offLost>>

\* PttGuard::release retries; if the channel stays full the guard stays
\* armed and is dropped.
Release ==
    /\ pc = "release"
    /\ \/ ptt' = "off" /\ Disarmed
       \/ ptt' = ptt /\ GuardDrop
    /\ report' = Failed /\ Idle
    /\ UNCHANGED <<inbox, audio, abort, keyed, quiet, abandoned, offLost>>

\* The audio is handed over; the channel may drop it.
Play ==
    /\ pc = "lead" /\ Permitted(cur.client)
    /\ audio' \in BOOLEAN
    /\ pc' = "playing"
    /\ UNCHANGED <<inbox, cur, incoming, guard, abort, ptt, drops, report, keyed,
                   quiet, abandoned, offLost>>

\* The last poll of the playback finds nothing; the rest of it is not polled.
PlayedOut ==
    /\ pc = "playing" /\ Calm /\ Superseding = {}
    /\ pc' = "tail"
    /\ UNCHANGED <<inbox, cur, incoming, guard, audio, abort, ptt, drops, report,
                   keyed, quiet, abandoned, offLost>>

\* The end of a frame: the tail pause, PTT-off and the report.
Finish ==
    /\ pc = "tail"
    /\ \/ abort /\ GuardDrop /\ UNCHANGED <<ptt, offLost>>
       \/ PlainOff /\ Disarmed
    /\ report' = Told(cur.items, IF audio THEN "sent" ELSE "failed") /\ Idle
    /\ UNCHANGED <<inbox, audio, abort, keyed, quiet, abandoned>>

\* Mutant: the request that supersedes the frame is also put back.
PolledInboxUntouched(i) == inbox

PolledInbox(i) == RemoveAt(inbox, i)

\* The first request of the inbox that concerns the frame; the poll sets the
\* abort flag itself.
Superseded ==
    /\ OnAir /\ Calm /\ Superseding # {}
    /\ LET i == Min(Superseding)
       IN  incoming' = inbox[i] /\ inbox' = PolledInbox(i)
    /\ abort' = TRUE
    /\ pc' = "superseded"
    /\ UNCHANGED <<cur, guard, audio, ptt, drops, report, keyed, quiet, abandoned,
                   offLost>>

-----------------------------------------------------------------------------
(* supersede_and_rekey_or_bundle: PTT-off, then one of three outcomes.     *)

\* remote_identities_conflict
Conflict == /\ cur.client # Local /\ incoming.client # Local
            /\ cur.client # incoming.client

\* The frame's items of other QSOs, and the new one.
Candidate ==
    {a \in cur.items : ~ \E b \in incoming.items : SameQso(a, b)} \cup incoming.items

CanBundle == /\ ~incoming.multi /\ cap > 1 /\ ~Conflict
             /\ Cardinality(Candidate) <= cap

Bundle == [multi |-> TRUE, items |-> Candidate,
           client |-> IF cur.client # Local THEN cur.client ELSE incoming.client]

\* Too late to re-key.  A single frame is reported and its guard dropped; the
\* request that came is dropped.  A bundle gives way to a newer bundle.
SupersedeNotViable ==
    /\ pc = "superseded"
    /\ PlainOff
    /\ report' = Failed
    /\ IF cur.multi /\ incoming.multi
       THEN inbox' = <<incoming>> \o inbox /\ UNCHANGED quiet
       ELSE quiet' = quiet \cup incoming.items /\ UNCHANGED inbox
    /\ IF cur.multi THEN Disarmed ELSE GuardDrop
    /\ Idle
    /\ UNCHANGED <<audio, abort, keyed, abandoned>>

\* A single frame is re-keyed with the new request: more than one stream is
\* not allowed, the clients differ, or the bundle cannot be encoded.
SupersedeReplace ==
    /\ pc = "superseded" /\ ~cur.multi /\ ~incoming.multi
    /\ PlainOff /\ Disarmed
    /\ report' = Failed
    /\ cur' = incoming /\ incoming' = Nothing
    /\ abort' = FALSE
    /\ pc' = "wait"
    /\ UNCHANGED <<inbox, audio, keyed, quiet, abandoned>>

\* Mutant: an abandoned bundle is reported although it was put back.
ReplacedBundleReported(s) == Told(s \cup cur.items, "failed")

ReplacedBundleReport(s) == Told(s, "failed")

\* Mutant: the request that is over the cap is put back behind the bundle.
OverCapQueueAgain == <<cur, incoming>> \o inbox

OverCapQueue == <<cur>> \o inbox

\* A bundle is not re-keyed in place: on an identity conflict the new request
\* is queued instead, over the cap the bundle is queued again.
SupersedeMultiReplace ==
    /\ pc = "superseded" /\ cur.multi /\ ~incoming.multi
    /\ ~CanBundle
    /\ PlainOff /\ Disarmed
    /\ IF cap > 1 /\ Conflict
       THEN report' = Failed /\ inbox' = <<incoming>> \o inbox
       ELSE report' = ReplacedBundleReport(incoming.items) /\ inbox' = OverCapQueue
    /\ Idle
    /\ UNCHANGED <<audio, abort, keyed, quiet, abandoned>>

\* Mutant: a folded supersede only puts its bundle back and sends no PTT-off.
BundleOffForgotten == UNCHANGED <<ptt, offLost>>

BundleOff == PlainOff

\* The frame and the request are queued again as one bundle; if the streams
\* of a bundle collide, only the new request is.
SupersedeBundle ==
    /\ pc = "superseded" /\ CanBundle
    /\ BundleOff /\ Disarmed
    /\ \/ inbox' = <<Bundle>> \o inbox /\ abandoned' = abandoned \cup (cur.items \ Candidate)
       \/ /\ cur.multi /\ Cardinality(Candidate) > 1
          /\ inbox' = <<incoming>> \o inbox
          /\ abandoned' = abandoned \cup cur.items
    /\ Idle
    /\ UNCHANGED <<audio, abort, report, keyed, quiet>>

\* Shutdown is seen at the head of the loop and in every sleep.
Stop ==
    /\ pc \in {"idle", "collect", "wait", "lead", "playing", "tail"}
    /\ pc' = "stopped"
    /\ IF guard THEN GuardDrop ELSE Disarmed
    /\ UNCHANGED <<inbox, cur, incoming, audio, abort, ptt, report, keyed, quiet,
                   abandoned, offLost>>

-----------------------------------------------------------------------------
(* The tasks of dropped guards, and the rest of the process.               *)

\* The task retries; it gives up only while the channel stays full.
DropTask ==
    /\ drops > 0
    /\ drops' = drops - 1
    /\ PlainOff
    /\ UNCHANGED <<inbox, pc, cur, incoming, guard, audio, abort, report, keyed,
                   quiet, abandoned>>

\* The QSO engine sends one attempt, or the autonomous operator a bundle.
Issue ==
    /\ next <= Attempts
    /\ \/ inbox' = Append(inbox, Single(next)) /\ next' = next + 1
       \/ /\ next < Attempts /\ cap > 1
          /\ ~SameQso(next, next + 1)
          /\ ClientOf[next] = Local /\ ClientOf[next + 1] = Local
          /\ inbox' = Append(inbox, [multi |-> TRUE, items |-> {next, next + 1},
                                     client |-> Local])
          /\ next' = next + 2
    /\ UNCHANGED <<pc, cur, incoming, guard, audio, abort, muted, halting, cap,
                   armed, ptt, drops, report, keyed, quiet, abandoned, offLost, doomed>>

\* F8 aborts the frame on the air.
StopTx ==
    /\ abort' = TRUE
    /\ UNCHANGED <<next, inbox, pc, cur, incoming, guard, audio, muted, halting,
                   cap, armed, ptt, drops, report, keyed, quiet, abandoned, offLost,
                   doomed>>

\* TxHaltHandles::halt: the abort flag first, the policy last.
HaltAbort ==
    /\ ~halting
    /\ abort' = TRUE /\ halting' = TRUE
    /\ UNCHANGED <<next, inbox, pc, cur, incoming, guard, audio, muted, cap, armed,
                   ptt, drops, report, keyed, quiet, abandoned, offLost, doomed>>

HaltPolicy ==
    /\ halting
    /\ muted' = TRUE /\ halting' = FALSE
    /\ doomed' = IF abort /\ pc # "tail"
                 THEN doomed \cup cur.items \cup incoming.items ELSE doomed
    /\ UNCHANGED <<next, inbox, pc, cur, incoming, guard, audio, abort, cap, armed,
                   ptt, drops, report, keyed, quiet, abandoned, offLost>>

\* The operator opens the policy again.
Resume ==
    /\ muted
    /\ muted' = FALSE /\ doomed' = {}
    /\ UNCHANGED <<next, inbox, pc, cur, incoming, guard, audio, abort, halting,
                   cap, armed, ptt, drops, report, keyed, quiet, abandoned, offLost>>

\* The arm gate permits another client, or none.
Rearm ==
    /\ \E c \in Client \cup {Local} : c # armed /\ armed' = c
    /\ UNCHANGED <<next, inbox, pc, cur, incoming, guard, audio, abort, muted,
                   halting, cap, ptt, drops, report, keyed, quiet, abandoned, offLost,
                   doomed>>

\* Fox mode is switched on or off.
FoxMode ==
    /\ \E c \in Caps : c # cap /\ cap' = c
    /\ UNCHANGED <<next, inbox, pc, cur, incoming, guard, audio, abort, muted,
                   halting, armed, ptt, drops, report, keyed, quiet, abandoned,
                   offLost, doomed>>

-----------------------------------------------------------------------------
Init ==
    /\ next = 1 /\ inbox = <<>> /\ pc = "idle"
    /\ cur = Nothing /\ incoming = Nothing
    /\ guard = FALSE /\ audio = FALSE /\ abort = FALSE
    /\ muted = FALSE /\ halting = FALSE /\ armed = Local /\ cap \in Caps
    /\ ptt = "off" /\ drops = 0
    /\ report = [a \in Attempt |-> "none"]
    /\ keyed = {} /\ quiet = {} /\ abandoned = {} /\ offLost = FALSE /\ doomed = {}

Worker ==
    \/ Take \/ CollectAborted \/ Coalesce \/ Admit \/ WaitFails \/ Reached
    \/ Gate \/ Key \/ HoldTooLong \/ Aborted \/ DisarmedOnAir \/ Release
    \/ Play \/ PlayedOut \/ Finish \/ Superseded \/ SupersedeNotViable
    \/ SupersedeReplace \/ SupersedeMultiReplace \/ SupersedeBundle

Next ==
    \/ (Worker \/ Stop \/ DropTask) /\ UNCHANGED env
    \/ Issue \/ StopTx \/ HaltAbort \/ HaltPolicy \/ Resume \/ Rearm \/ FoxMode

Spec == Init /\ [][Next]_vars

\* The worker's task is polled and its sleeps end.
FairSpec == Spec /\ WF_vars(Worker /\ UNCHANGED env)

-----------------------------------------------------------------------------
(* Properties.                                                             *)

IsRequest(r) ==
    /\ DOMAIN r = {"multi", "items", "client"}
    /\ r.multi \in BOOLEAN /\ r.items \subseteq Attempt
    /\ r.client \in Client \cup {Local}

\* Types, and where a request stands: a frame in the worker's hand is not also
\* in its inbox, whatever polls, requeues and supersedes came before.
TypeOK ==
    /\ next \in 1..Attempts + 1
    /\ \A i \in DOMAIN inbox : IsRequest(inbox[i]) /\ inbox[i].items # {}
    /\ pc \in {"idle", "collect", "admit", "wait", "gate", "key", "lead",
               "playing", "tail", "release", "superseded", "stopped"}
    /\ IsRequest(cur) /\ IsRequest(incoming)
    /\ guard \in BOOLEAN /\ audio \in BOOLEAN /\ abort \in BOOLEAN
    /\ muted \in BOOLEAN /\ halting \in BOOLEAN
    /\ cap \in Caps /\ armed \in Client \cup {Local}
    /\ ptt \in {"on", "off"} /\ drops \in Nat
    /\ report \in [Attempt -> {"none", "failed", "sent", "twice"}]
    /\ keyed \subseteq Attempt /\ quiet \subseteq Attempt
    /\ abandoned \subseteq Attempt /\ doomed \subseteq Attempt
    /\ offLost \in BOOLEAN
    /\ cur.items \cap Items(inbox) = {}

\* No attempt is reported twice: roll_back_unsent_attempt would hand the call
\* back twice, or a sent frame would be rolled back.
ReportedOnce == \A a \in Attempt : report[a] # "twice"

Held == Items(inbox) \cup cur.items \cup incoming.items

Unaccounted ==
    IF pc = "stopped" THEN {}
    ELSE {a \in 1..(next - 1) : a \notin Held \cup quiet /\ report[a] = "none"}

\* An attempt the worker took is waiting, in hand, reported or dropped where
\* the design says so; only a folded supersede leaves one behind.
FrameIsAccounted == Unaccounted \subseteq abandoned

\* Every supersede reports the frames it abandons.
AbandonedIsReported == Unaccounted = {}

\* A frame reported as sent had its PTT-on taken by the rig's channel.
SentWasKeyed == \A a \in Attempt : report[a] = "sent" => a \in keyed

\* Once the channel took a PTT-on, some PTT-off is owed, by the armed guard or
\* a task of a dropped one, or was lost to a full channel.
OnIsAnswered == ptt = "on" => guard \/ drops > 0 \/ offLost

\* A frame that is in hand when a halt has closed the policy, with the abort
\* flag still up, is not reported as sent before the policy opens again.
HaltHolds == \A a \in doomed : report[a] # "sent"

\* The worker comes back to an empty inbox: requests that are put back and
\* superseded again do not keep it going for ever.
WorkerDrains == (pc # "idle") ~> (pc = "stopped" \/ (pc = "idle" /\ inbox = <<>>))
=============================================================================
