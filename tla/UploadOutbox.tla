---------------------------- MODULE UploadOutbox ----------------------------
(***************************************************************************)
(* The pending-upload worker (pancetta/src/coordinator/upload_outbox.rs),  *)
(* the queue file it owns (pancetta-dx/src/upload_outbox.rs) and the QSO   *)
(* upload subscriber that feeds it (coordinator/qso.rs).                   *)
(*                                                                         *)
(* A completed QSO is handed to the worker as a batch of one upload per    *)
(* enabled destination.  The worker writes its queue to the file before it *)
(* sends anything, sends one upload per destination at a time, and writes  *)
(* the file again after each answer.  The process may die between any two  *)
(* steps; what survives is the file and what the services have taken.      *)
(*                                                                         *)
(* Times are abstracted to whether they have come: a lane's next_due and   *)
(* the write retry become due by a step of their own, so every backoff,    *)
(* burst and slow-lane length is covered.  An upload is the pair of its    *)
(* QSO and its destination, which is what OutboxStore::add compares.       *)
(***************************************************************************)
EXTENDS Integers, FiniteSets, Sequences

CONSTANTS
    Qso,            \* the QSOs that can complete
    Dest,           \* the destinations, numbered in display order
    Capacity,       \* most entries of the queue (OUTBOX_MAX_ENTRIES)
    ChannelCap,     \* batches the worker's channel holds
    Answers         \* what its service may answer to each upload

Upload == Qso \X Dest

AllAnswers == {"accepted", "transient", "login", "record"}

ASSUME OutboxAssumption ==
    /\ Dest \subseteq Nat
    /\ IsFiniteSet(Qso) /\ IsFiniteSet(Dest)
    /\ Capacity \in Nat /\ ChannelCap \in Nat \ {0}
    /\ Answers \in [Upload -> (SUBSET AllAnswers) \ {{}}]

VARIABLES
    \* The rest of the process.
    todo,           \* QSOs that have not completed
    done,           \* QSOs completed since the start
    events,         \* completions waiting at the upload subscriber
    subscriber,     \* the subscriber still holds its handle
    shutdown,       \* the process-wide shutdown flag
    stop,           \* stop_upload_outbox has asked the subscriber to finish
    \* The worker.
    pc,             \* where Worker::run is
    after,          \* where it goes on after a queue write
    phase,          \* its loop: "run", "drain" or "rest"
    open,           \* inbox_open
    inbox,          \* batches in its channel, named by their QSO
    store,          \* the queue in memory
    unsaved,        \* entries added since the last successful write
    retry,          \* persist_retry_at: "none", "waiting" or "due"
    blocked,        \* persist_blocked
    enabled,        \* the destinations of this run
    lane,           \* per destination: in_flight, next_due, login_rejected
    sending,        \* uploads whose delivery task waits for the service
    results,        \* answers waiting in the results channel
    refused,        \* uploads refused since the start: the queue was full
    \* What survives the process.
    disk,           \* the queue in the file
    readable,       \* the file can be read
    aside,          \* uploads in files that were put aside
    arrived         \* uploads a service has taken

env    == <<todo, done, events, subscriber, shutdown, stop>>
saving == <<store, unsaved, retry, blocked, refused>>
air    == <<lane, sending, results>>
durable == <<disk, readable, aside, arrived>>
vars == <<todo, done, events, subscriber, shutdown, stop, pc, after, phase,
          open, inbox, store, unsaved, retry, blocked, enabled, lane, sending,
          results, refused, disk, readable, aside, arrived>>

-----------------------------------------------------------------------------
(* OutboxStore.  `tried' holds the entries with attempts > 0 and `ahead'   *)
(* the order next_for follows within a destination: never-attempted        *)
(* entries in queue order, then by the time of the last attempt.           *)

EmptyStore == [entries |-> {}, held |-> {}, tried |-> {}, ahead |-> {}]

Same(s, u) == {v \in s.entries : v[2] = u[2] /\ v # u}

Without(s, u) == {p \in s.ahead : p[1] # u /\ p[2] # u}

\* add: known uploads are skipped, and past capacity the rest is refused.
New(s, batch) == batch \ s.entries

Fits(s, batch) ==
    {u \in New(s, batch) :
        Cardinality({v \in New(s, batch) : v[2] < u[2]})
            < Capacity - Cardinality(s.entries)}

Add(s, batch) ==
    [s EXCEPT !.entries = @ \cup Fits(s, batch),
              !.ahead = @ \cup UNION {
                  {IF v \in s.tried THEN <<u, v>> ELSE <<v, u>> : v \in Same(s, u)}
                     : u \in Fits(s, batch)}]

ReleaseHeld(s) == [s EXCEPT !.held = {}]

\* next_for: the pending entry of d that every other one is behind, if any.
NextFor(s, d) ==
    {u \in s.entries \ s.held :
        /\ u[2] = d
        /\ \A v \in Same(s, u) \ s.held : <<u, v>> \in s.ahead}

Delivered(s, u) ==
    [entries |-> s.entries \ {u}, held |-> s.held \ {u},
     tried |-> s.tried \ {u}, ahead |-> Without(s, u)]

\* Mutant: a failed upload keeps its place, so it is picked again at once.
RecordFailureInPlace(s, u) ==
    IF u \in s.entries THEN [s EXCEPT !.tried = @ \cup {u}] ELSE s

RecordFailure(s, u) ==
    IF u \in s.entries
    THEN [s EXCEPT !.tried = @ \cup {u},
                   !.ahead = Without(s, u) \cup {<<v, u>> : v \in Same(s, u)}]
    ELSE s

Hold(s, u) ==
    IF u \in s.entries
    THEN [RecordFailure(s, u) EXCEPT !.held = @ \cup {u}]
    ELSE s

\* The lane before its first attempt.
FreshLane == [busy |-> FALSE, due |-> TRUE, rejected |-> FALSE]

\* Mutant: a lane may start an attempt while one is in flight.
ReadyWhileBusy(d) == ~lane[d].rejected /\ lane[d].due

Ready(d) == ~lane[d].busy /\ ~lane[d].rejected /\ lane[d].due

-----------------------------------------------------------------------------
Down ==
    /\ done = {} /\ events = <<>> /\ inbox = <<>>
    /\ subscriber = FALSE /\ shutdown = FALSE /\ stop = FALSE
    /\ pc = "down" /\ after = "idle" /\ phase = "run" /\ open = FALSE
    /\ store = EmptyStore /\ unsaved = {} /\ retry = "none"
    /\ blocked = FALSE /\ enabled = {} /\ refused = {}
    /\ lane = [d \in Dest |-> FreshLane] /\ sending = {} /\ results = {}

Init ==
    /\ Down
    /\ todo = Qso
    /\ disk = EmptyStore /\ readable = TRUE
    /\ aside = {} /\ arrived = {}

\* The process ends: everything that is not on disk is gone.
Vanish ==
    /\ done' = {} /\ events' = <<>> /\ inbox' = <<>>
    /\ subscriber' = FALSE /\ shutdown' = FALSE /\ stop' = FALSE
    /\ pc' = "down" /\ after' = "idle" /\ phase' = "run" /\ open' = FALSE
    /\ store' = EmptyStore /\ unsaved' = {} /\ retry' = "none"
    /\ blocked' = FALSE /\ enabled' = {} /\ refused' = {}
    /\ lane' = [d \in Dest |-> FreshLane] /\ sending' = {} /\ results' = {}
    /\ UNCHANGED <<todo, durable>>

\* persist, from its call to the write: a blocked queue is never written.
Persist(next) ==
    /\ pc' = IF blocked THEN next ELSE "write"
    /\ after' = IF blocked THEN "idle" ELSE next

-----------------------------------------------------------------------------
(* The start of the worker, from the first Qso start with a destination.   *)

\* The file is read and its held entries are released.
OpenQueue ==
    /\ readable
    /\ store' = ReleaseHeld(disk)
    /\ blocked' = FALSE
    /\ pc' = IF disk.held # {} THEN "write" ELSE "top"
    /\ after' = IF disk.held # {} THEN "top" ELSE "idle"
    /\ UNCHANGED durable

\* Mutant: a file that could not be put aside is overwritten.
QuarantineAnyway ==
    /\ ~readable
    /\ store' = EmptyStore
    /\ pc' = "top" /\ UNCHANGED after
    /\ blocked' = FALSE
    /\ UNCHANGED durable

\* The file cannot be read: it is renamed aside, or the rename fails and the
\* file must not be written this session.
Quarantine ==
    /\ ~readable
    /\ store' = EmptyStore
    /\ pc' = "top" /\ UNCHANGED after
    /\ \/ /\ aside' = aside \cup disk.entries
          /\ disk' = EmptyStore /\ readable' = TRUE
          /\ blocked' = FALSE
          /\ UNCHANGED arrived
       \/ /\ blocked' = TRUE
          /\ UNCHANGED durable

Start ==
    /\ pc = "down"
    /\ OpenQueue \/ Quarantine
    /\ enabled' \in (SUBSET Dest) \ {{}}
    /\ subscriber' = TRUE /\ open' = TRUE
    /\ UNCHANGED <<todo, done, events, shutdown, stop, phase, inbox, unsaved,
                   retry, air, refused>>

\* Between two runs the file may become unreadable, or readable again.
Spoil ==
    /\ pc = "down" /\ disk.entries # {}
    /\ readable' = ~readable
    /\ UNCHANGED <<env, pc, after, phase, open, inbox, saving, enabled, air,
                   disk, aside, arrived>>

Crash == pc # "down" /\ Vanish

Exit == pc = "ended" /\ stop /\ Vanish

-----------------------------------------------------------------------------
(* The rest of the process.                                                *)

\* The QSO component completes a QSO; it runs until shutdown stops it.
Complete(q) ==
    /\ pc # "down" /\ ~stop /\ subscriber
    /\ q \in todo
    /\ todo' = todo \ {q}
    /\ done' = done \cup {q}
    /\ events' = Append(events, q)
    /\ UNCHANGED <<subscriber, shutdown, stop, pc, after, phase, open, inbox,
                   saving, enabled, air, durable>>

Closed == phase = "rest"

\* The subscriber hands the next completion over; it waits for room in the
\* channel, and a closed channel refuses the batch.
Enqueue ==
    /\ subscriber /\ events # <<>>
    /\ events' = Tail(events)
    /\ IF Closed
       THEN UNCHANGED inbox
       ELSE Len(inbox) < ChannelCap /\ inbox' = Append(inbox, Head(events))
    /\ UNCHANGED <<todo, done, subscriber, shutdown, stop, pc, after, phase,
                   open, saving, enabled, air, durable>>

\* Mutant: asked to finish, the subscriber leaves its events unread.
SubscriberFinishAtOnce ==
    /\ subscriber /\ stop
    /\ subscriber' = FALSE
    /\ UNCHANGED <<todo, done, events, shutdown, stop, pc, after, phase, open,
                   inbox, saving, enabled, air, durable>>

\* Asked to finish, the subscriber drains its events, then drops its handle.
SubscriberFinish ==
    /\ subscriber /\ stop /\ events = <<>>
    /\ subscriber' = FALSE
    /\ UNCHANGED <<todo, done, events, shutdown, stop, pc, after, phase, open,
                   inbox, saving, enabled, air, durable>>

RequestShutdown ==
    /\ pc # "down" /\ ~shutdown
    /\ shutdown' = TRUE
    /\ UNCHANGED <<todo, done, events, subscriber, stop, pc, after, phase,
                   open, inbox, saving, enabled, air, durable>>

\* stop_upload_outbox, once the QSO components have stopped: the request to
\* the subscriber, and the coordinator's own handle is dropped.
StopOutbox ==
    /\ shutdown /\ ~stop
    /\ stop' = TRUE
    /\ UNCHANGED <<todo, done, events, subscriber, shutdown, pc, after, phase,
                   open, inbox, saving, enabled, air, durable>>

-----------------------------------------------------------------------------
(* Worker::run.                                                            *)

LoopTop ==
    /\ pc = "top"
    /\ IF shutdown
       THEN phase' = "drain" /\ pc' = "select" /\ UNCHANGED after
       ELSE /\ UNCHANGED phase
            /\ IF retry = "due"
               THEN Persist("dispatch")
               ELSE pc' = "dispatch" /\ UNCHANGED after
    /\ UNCHANGED <<env, open, inbox, saving, enabled, air, durable>>

\* Mutant: entries that no write has saved yet are sent too.
DispatchableUnsaved(d) == IF Ready(d) THEN NextFor(store, d) ELSE {}

\* dispatch: one delivery for every ready destination whose next entry is
\* on disk.
Dispatchable(d) == IF Ready(d) THEN NextFor(store, d) \ unsaved ELSE {}

Dispatch ==
    LET go == UNION {Dispatchable(d) : d \in enabled} IN
    /\ pc = "dispatch"
    /\ sending' = sending \cup go
    /\ lane' = [d \in Dest |->
                  IF \E u \in go : u[2] = d
                  THEN [lane[d] EXCEPT !.busy = TRUE] ELSE lane[d]]
    /\ pc' = "select"
    /\ UNCHANGED <<env, after, phase, open, inbox, saving, enabled, results,
                   durable>>

\* Where a handler of the select returns to.
Resume == IF phase = "run" THEN "top" ELSE "select"

\* on_batch: what was added is held until a write succeeds.
OnBatch ==
    LET batch == {Head(inbox)} \X enabled
        new   == Fits(store, batch)
    IN  /\ pc = "select" /\ inbox # <<>> /\ (open \/ phase = "rest")
        /\ inbox' = Tail(inbox)
        /\ store' = Add(store, batch)
        /\ unsaved' = unsaved \cup new
        /\ refused' = refused \cup (New(store, batch) \ new)
        /\ IF new # {} THEN Persist(Resume) ELSE pc' = Resume /\ UNCHANGED after
        /\ UNCHANGED <<env, phase, open, retry, blocked, enabled, air, durable>>

\* What on_result makes of the queue and of the lane.
Judge(u, answer) ==
    CASE answer = "accepted"  -> Delivered(store, u)
      [] answer = "transient" -> RecordFailure(store, u)
      [] answer = "login"     -> RecordFailure(store, u)
      [] answer = "record"    -> Hold(store, u)

LaneAfter(d, answer) ==
    IF answer = "login"
    THEN [lane[d] EXCEPT !.busy = FALSE, !.rejected = TRUE]
    ELSE [lane[d] EXCEPT !.busy = FALSE, !.due = FALSE]

OnResult ==
    /\ pc = "select" /\ (phase = "run" \/ (phase = "drain" /\ open))
    /\ \E u \in Upload, answer \in AllAnswers :
          /\ <<u, answer>> \in results
          /\ results' = results \ {<<u, answer>>}
          /\ store' = Judge(u, answer)
          /\ lane' = [lane EXCEPT ![u[2]] = LaneAfter(u[2], answer)]
    /\ Persist(Resume)
    /\ UNCHANGED <<env, phase, open, inbox, unsaved, retry, blocked, enabled,
                   sending, refused, durable>>

Tick ==
    /\ pc = "select" /\ phase = "run"
    /\ pc' = "top"
    /\ UNCHANGED <<env, after, phase, open, inbox, saving, enabled, air, durable>>

\* recv returns None: every handle is gone and the channel is empty.
HandlesGone ==
    /\ pc = "select" /\ phase # "rest" /\ open
    /\ inbox = <<>> /\ ~subscriber /\ stop
    /\ open' = FALSE
    /\ pc' = Resume
    /\ UNCHANGED <<env, after, phase, inbox, saving, enabled, air, durable>>

\* The drain loop ends, on its own or by the backstop after the stop request,
\* and the channel is closed.
CloseInbox ==
    /\ pc = "select" /\ phase = "drain"
    /\ ~open \/ stop
    /\ phase' = "rest"
    /\ UNCHANGED <<env, pc, after, open, inbox, saving, enabled, air, durable>>

\* The batches the channel had taken are saved; then a last try to write
\* what is only in memory.
LastSave ==
    /\ pc = "select" /\ phase = "rest" /\ inbox = <<>>
    /\ IF retry # "none" THEN Persist("ended") ELSE pc' = "ended" /\ UNCHANGED after
    /\ UNCHANGED <<env, phase, open, inbox, saving, enabled, air, durable>>

\* write_atomic succeeds: every held upload becomes sendable.
WriteOk ==
    /\ pc = "write"
    /\ disk' = store
    /\ unsaved' = {} /\ retry' = "none"
    /\ pc' = after /\ after' = "idle"
    /\ UNCHANGED <<env, phase, open, inbox, store, blocked, refused,
                   enabled, air, readable, aside, arrived>>

\* Mutant: a failed write is only logged.
WriteFailsQuietly ==
    /\ pc = "write"
    /\ disk' \in {disk, store}
    /\ pc' = after /\ after' = "idle"
    /\ UNCHANGED <<env, phase, open, inbox, store, unsaved, retry, blocked,
                   refused, enabled, air, readable, aside, arrived>>

\* It fails, before the rename or (the directory sync) after it.
WriteFails ==
    /\ pc = "write"
    /\ disk' \in {disk, store}
    /\ retry' = "waiting"
    /\ pc' = after /\ after' = "idle"
    /\ UNCHANGED <<env, phase, open, inbox, store, unsaved, blocked,
                   refused, enabled, air, readable, aside, arrived>>

-----------------------------------------------------------------------------
(* Time, and the delivery tasks with the services.                         *)

RetryDue ==
    /\ retry = "waiting"
    /\ retry' = "due"
    /\ UNCHANGED <<env, pc, after, phase, open, inbox, store, unsaved, blocked,
                   refused, enabled, air, durable>>

LaneDue(d) ==
    /\ ~lane[d].due
    /\ lane' = [lane EXCEPT ![d].due = TRUE]
    /\ UNCHANGED <<env, pc, after, phase, open, inbox, saving, enabled,
                   sending, results, durable>>

Reply(u, answer) ==
    /\ u \in sending
    /\ sending' = sending \ {u}
    /\ results' = results \cup {<<u, answer>>}
    /\ UNCHANGED <<env, pc, after, phase, open, inbox, saving, enabled, lane,
                   disk, readable, aside>>

\* The service takes the upload and says so (a duplicate counts).
Accept(u) ==
    /\ "accepted" \in Answers[u]
    /\ arrived' = arrived \cup {u}
    /\ Reply(u, "accepted")

\* It does not, or the answer is lost on the way back.
Decline(u) ==
    \E answer \in Answers[u] \ {"accepted"} :
        /\ Reply(u, answer)
        /\ \/ UNCHANGED arrived
           \/ /\ answer = "transient" /\ "accepted" \in Answers[u]
              /\ arrived' = arrived \cup {u}

-----------------------------------------------------------------------------
WorkerStep ==
    \/ LoopTop \/ Dispatch \/ OnBatch \/ OnResult \/ Tick \/ HandlesGone
    \/ CloseInbox \/ LastSave \/ WriteOk \/ WriteFails

Next ==
    \/ Start \/ Spoil \/ Crash \/ Exit
    \/ \E q \in Qso : Complete(q)
    \/ Enqueue \/ SubscriberFinish \/ RequestShutdown \/ StopOutbox
    \/ WorkerStep
    \/ RetryDue
    \/ \E d \in Dest : LaneDue(d)
    \/ \E u \in Upload : Accept(u) \/ Decline(u)

Spec == Init /\ [][Next]_vars

\* The worker's task is scheduled; its select takes a ready message before the
\* tick; clocks go on; a delivery task ends (the clients have a timeout); a
\* service that is asked again and again takes an upload in the end; and a
\* queue write that is tried again and again succeeds in the end.
Fairness ==
    /\ WF_vars(WorkerStep) /\ SF_vars(OnBatch) /\ SF_vars(OnResult)
    /\ SF_vars(WriteOk) /\ WF_vars(RetryDue)
    /\ \A d \in Dest : WF_vars(LaneDue(d))
    /\ \A u \in Upload : WF_vars(Accept(u) \/ Decline(u)) /\ SF_vars(Accept(u))
    /\ WF_vars(Enqueue)

FairSpec == Spec /\ Fairness

-----------------------------------------------------------------------------
StoreType ==
    [entries : SUBSET Upload, held : SUBSET Upload, tried : SUBSET Upload,
     ahead : SUBSET (Upload \X Upload)]

\* Types, and the shape of the queue file: held entries are queued and tried,
\* and what the worker sends stands in its queue.
TypeOK ==
    /\ todo \subseteq Qso /\ done \subseteq Qso /\ enabled \subseteq Dest
    /\ events \in Seq(Qso) /\ inbox \in Seq(Qso) /\ Len(inbox) <= ChannelCap
    /\ {subscriber, shutdown, stop, open, blocked, readable} \subseteq BOOLEAN
    /\ pc \in {"down", "top", "dispatch", "select", "write", "ended"}
    /\ after \in {"idle", "top", "dispatch", "select", "ended"}
    /\ phase \in {"run", "drain", "rest"}
    /\ retry \in {"none", "waiting", "due"}
    /\ \A s \in {store, disk} :
          s \in StoreType /\ s.held \subseteq s.tried /\ s.tried \subseteq s.entries
    /\ Cardinality(store.entries) <= Capacity
    /\ unsaved \subseteq store.entries
    /\ lane \in [Dest -> [busy : BOOLEAN, due : BOOLEAN, rejected : BOOLEAN]]
    /\ sending \subseteq store.entries
    /\ results \subseteq store.entries \X AllAnswers
    /\ refused \subseteq Upload /\ aside \subseteq Upload /\ arrived \subseteq Upload

\* An upload is never sent before it is on disk (the module comment of
\* coordinator/upload_outbox.rs), whatever writes failed in between and
\* whichever later batch is still unsaved.
SentIsOnDisk == sending \subseteq disk.entries

\* persist_retry_at is Some whenever the file is behind the queue in memory:
\* no handler leaves a change that neither a write nor a retry will save.
DiskBehindIsMarked ==
    (pc \notin {"down", "write"} /\ ~blocked) => (disk = store \/ retry # "none")

\* A stop in which the worker saw every handle go, not the backstop, and whose
\* last write succeeded loses nothing: every upload of a QSO completed since the start is in the
\* file, with its service, or was refused because the queue was full.
CleanStopSavesAll ==
    (pc = "ended" /\ ~open /\ ~blocked /\ retry = "none")
        => (done \X enabled) \subseteq (disk.entries \cup arrived \cup refused)

\* The worker implements the durable queue: across crashes, failed writes and
\* unreadable files an upload leaves the file only once its service has it.
Queue == INSTANCE DurableQueue WITH queued <- disk.entries

QueueSpec == Queue!Spec

\* No starvation: while the program runs, a queued upload its service is
\* willing to take arrives, although others of its destination keep failing;
\* only a login rejection of the destination or a rejection of the record
\* itself ends the attempts of this session.
QueuedArrives ==
    \A u \in {v \in Upload : "accepted" \in Answers[v]} :
        (pc # "down" /\ u \in store.entries /\ u[2] \in enabled /\ ~blocked)
            ~> (u \in arrived \/ u \in store.held \/ lane[u[2]].rejected
                  \/ shutdown \/ pc = "down")
=============================================================================
